---- MODULE Spec2Model ----
(***************************************************************************)
(* Model of the scrapeWithJs acquisition pipeline.                         *)
(*                                                                         *)
(*   Spec        main() of scrape.js together with processLinksFromContent *)
(*               and renderLinkAndExtractMarkdown of src/linkprocessors.js *)
(*   SpecRetry   retryFetch of src/utils.js                                *)
(*   SpecQuiesce waitForQuiescence of src/utils.js                         *)
(*   SpecNetIdle the network-idle loop of main()                           *)
(*   SpecWaitsPrompt  both waits, with timers that fire when due           *)
(*   SpecLinks   processLinksFromContent called with any maxLinks          *)
(*   SpecExtract extractFilteredLinks of src/linkprocessors.js             *)
(*   SpecRadial  performRadialSearch of src/radialsearch.js                *)
(*                                                                         *)
(* An async function is cut at its awaits: one action runs from the        *)
(* resumption of an await to the next suspension.  What a collaborator     *)
(* (network, file system, DOM engine) answers is chosen with \E.           *)
(***************************************************************************)
EXTENDS Integers, Sequences, FiniteSets, TLC

VARIABLES
    \* ---- main() of scrape.js
    pc,            \* position of main()
    argv,          \* [url, term, out]: which arguments the command line holds
    tried,         \* acquisition stages attempted so far, in order
    simpleRes,     \* outcome of stage 1 (simple fetch)
    renderRes,     \* outcome of stage 2 (jsdom render)
    fallbackRes,   \* outcome of stage 3 (fallback simple fetch)
    output,        \* the stage whose result was written, or "none"
    writes,        \* number of completed writes to the output destination
    exitCode,      \* -1 while running, else the process exit code
    stderr,        \* messages printed on the error stream
    results,       \* results.length of performRadialSearch
    fragIdx,       \* loop index i of the fragment loop (1-based, 0 = not started)
    waitEnds,      \* how the waits of stage 2 ended so far: "quiet" or "ceiling"
    extracted,     \* stage 2 went on to extraction after its waits
    \* ---- render sessions (JSDOM windows)
    openSessions,  \* ids of the script-executing windows that are open (0 = top-level)
    sessCount,     \* script-executing link sessions created so far
    plainOpen,     \* parse-only JSDOM documents created and not closed
    \* ---- processLinksFromContent / renderLinkAndExtractMarkdown
    lp_pc,         \* position of the link expander
    lp_n,          \* processedLinks.length
    lp_i,          \* loop index i (1-based)
    lp_sections,   \* one entry per "Linked Content" section: its number, url and kind
    lp_max,        \* opts.maxLinks of the call
    lp_found,      \* links: what extractFilteredLinks returned, in discovery order
    lp_started,    \* the urls renderLinkAndExtractMarkdown was called with, in order
    lp_total,      \* the calls of renderLinkAndExtractMarkdown made in the whole run
    lp_log,        \* per link: what its fetch and its quick extraction gave
    lp_cur,        \* id of the session of the link being rendered, 0 if none
    lp_leaked,     \* sessions still open when the renderLink call that made them ended
    \* ---- retryFetch
    rf_pc,         \* "idle", "fetching", "sleeping", "returned", "threw", "undefined"
    rf_max,        \* the argument maxRetries
    rf_attempt,    \* the loop variable attempt
    rf_issued,     \* calls of fetch(url, opts) made so far
    rf_log,        \* what each settled attempt gave: a status, or "error" (transport)
    rf_slept,      \* the delays (ms) of the backoff waits started so far
    rf_result,     \* the response returned or the error thrown, "none" before
    \* ---- waitForQuiescence
    q_pc,          \* "idle", "waiting", "resolved"
    q_quiet,       \* opts.quiet, in ticks
    q_timeout,     \* opts.timeout, in ticks
    q_now,         \* Date.now(), in ticks
    q_start,       \* start
    q_lastChange,  \* lastChange
    q_observing,   \* the MutationObserver is connected
    q_timers,      \* due times of the pending setTimeout(check, ...) timers
    q_loadPending, \* a load listener is registered and load has not fired yet
    q_lastMut,     \* time of the last mutation delivered to the observer, -1 if none
    q_resolvedAt,  \* time of the first resolve(), -1 before
    q_resolves,    \* calls of resolve() so far
    q_disconnects, \* calls of obs.disconnect() so far
    \* ---- the network-idle loop (main() and renderLinkAndExtractMarkdown)
    n_pc,          \* "idle", "called", "sleeping", "ended"
    n_idle,        \* networkIdleMs, in ticks
    n_ceiling,     \* networkMaxWait, in ticks
    n_now,         \* Date.now(), in ticks
    n_startNet,    \* startNet
    n_lastZero,    \* lastZero (NoZero for the value 0)
    n_pending,     \* dom.window.__pendingRequests
    n_due,         \* due time of the pending setTimeout(r, 200)
    n_lastBusy,    \* last moment at which a request was in flight, -1 if none
    n_endedAt,     \* time at which the loop was left, -1 before
    n_endedBy,     \* "none", "idle" (the break) or "ceiling" (the loop condition)
    \* ---- extractFilteredLinks
    ex_pc,         \* "idle", "called", "returned"
    ex_html,       \* the href texts of the input, in document order
    ex_base,       \* whether baseUrl is given
    ex_out,        \* filteredLinks as returned
    \* ---- performRadialSearch
    rs_pc,         \* "idle", "called", "returned"
    rs_doc,        \* the document: its nodes in document order
    rs_radius,     \* opts.radiusLevels (0: absent)
    rs_cleaned,    \* the svg elements emptied by cleanSvgContent
    rs_results,    \* results
    \* ---- DuplicateRemover
    dd_pc,         \* "idle", "called", "simplified", "enhanced", "render", "written"
    dd_text,       \* the content given, as its lines
    dd_out,        \* the content returned, as its lines
    \* ---- needBrowserFallback called on its own
    sel_pc,        \* "idle", "called"
    sel_calls,     \* the calls made so far: html, opts and the value returned
    \* ---- the command line of main
    ar_pc,         \* "idle", "called", "exit2", "fetching"
    ar_argv,       \* process.argv.slice(2)
    ar_parsed,     \* <<>> or the one record of url, out, term, detalhe parsed
    \* ---- the pending-request counter of a render session
    pr_pc,         \* "idle", "open"
    pr_pending,    \* window.__pendingRequests
    pr_fetches,    \* calls of window.fetch in flight
    pr_xhr,        \* of each XMLHttpRequest: in flight, sends so far, wrappers in onreadystatechange
    \* ---- the interaction simulation of a render session
    ia_pc,         \* "idle", "listening", "loaded", "failed", "closed"
    ia_log,        \* what happened and when: load, scroll, click, ...
    ia_now,        \* the clock, in steps of 100 ms
    ia_timer,      \* when the click timer is due (NoTimer: not set)
    \* ---- the linked content appended to a fragment
    ap_pc,         \* "idle", "called", "appended"
    ap_md,         \* convertToLlmReadyMarkdown(r.html)
    ap_link,       \* linkContent of processLinksFromContent for the fragment
    ap_appended    \* what main() appends to fragmentContent

mainVars == <<pc, argv, tried, simpleRes, renderRes, fallbackRes, output, writes,
              exitCode, stderr, results, fragIdx,
              waitEnds, extracted>>
sessVars == <<openSessions, sessCount, plainOpen>>
\* what one call of processLinksFromContent fixes for all its links
lpCall == <<lp_max, lp_found>>
lpVars == <<lp_pc, lp_n, lp_i, lp_sections, lp_cur, lp_leaked, lpCall, lp_started, lp_total, lp_log>>
rfVars == <<rf_pc, rf_max, rf_attempt, rf_issued, rf_log, rf_slept, rf_result>>
qVars == <<q_pc, q_quiet, q_timeout, q_now, q_start, q_lastChange, q_observing,
           q_timers, q_loadPending, q_lastMut, q_resolvedAt, q_resolves, q_disconnects>>
netVars == <<n_pc, n_idle, n_ceiling, n_now, n_startNet, n_lastZero, n_pending, n_due,
             n_lastBusy, n_endedAt, n_endedBy>>
exVars == <<ex_pc, ex_html, ex_base, ex_out>>
rsVars == <<rs_pc, rs_doc, rs_radius, rs_cleaned, rs_results>>
ddVars == <<dd_pc, dd_text, dd_out>>
selVars == <<sel_pc, sel_calls>>
arVars == <<ar_pc, ar_argv, ar_parsed>>
prVars == <<pr_pc, pr_pending, pr_fetches, pr_xhr>>
iaVars == <<ia_pc, ia_log, ia_now, ia_timer>>
apVars == <<ap_pc, ap_md, ap_link, ap_appended>>
\* what the pipeline actions leave alone
besidePipeline == <<rfVars, qVars, netVars, exVars, rsVars, ddVars, selVars, arVars, prVars, iaVars, apVars>>
\* what the actions of retryFetch leave alone
besideRetry == <<mainVars, sessVars, lpVars, qVars, netVars, exVars, rsVars, ddVars, selVars, arVars, prVars, iaVars, apVars>>
\* what the actions of waitForQuiescence leave alone
besideQuiesce == <<mainVars, sessVars, lpVars, rfVars, netVars, exVars, rsVars, ddVars, selVars, arVars, prVars, iaVars, apVars>>
\* what the actions of the network-idle loop leave alone
besideNet == <<mainVars, sessVars, lpVars, rfVars, qVars, exVars, rsVars, ddVars, selVars, arVars, prVars, iaVars, apVars>>
\* what extractFilteredLinks leaves alone
besideExtract == <<mainVars, sessVars, lpVars, rfVars, qVars, netVars, rsVars, ddVars, selVars, arVars, prVars, iaVars, apVars>>
\* what performRadialSearch leaves alone
besideRadial == <<mainVars, sessVars, lpVars, rfVars, qVars, netVars, exVars, ddVars, selVars, arVars, prVars, iaVars, apVars>>
\* what the duplicate removers leave alone
besideDedup == <<mainVars, sessVars, lpVars, rfVars, qVars, netVars, exVars, rsVars, selVars, arVars, prVars, iaVars, apVars>>
\* what a call of needBrowserFallback leaves alone
besideSelector == <<mainVars, sessVars, lpVars, rfVars, qVars, netVars, exVars, rsVars, ddVars, arVars, prVars, iaVars, apVars>>
\* what the parsing of the command line leaves alone
besideArgs == <<mainVars, sessVars, lpVars, rfVars, qVars, netVars, exVars, rsVars, ddVars, selVars, prVars, iaVars, apVars>>
\* what the requests of a page leave alone
besidePending == <<mainVars, sessVars, lpVars, rfVars, qVars, netVars, exVars, rsVars, ddVars, selVars, arVars, iaVars, apVars>>
\* what the interaction simulation leaves alone
besideInteraction == <<mainVars, sessVars, lpVars, rfVars, qVars, netVars, exVars, rsVars, ddVars, selVars, arVars, prVars, apVars>>
\* what the link step of a fragment leaves alone
besideAppend == <<mainVars, sessVars, lpVars, rfVars, qVars, netVars, exVars, rsVars, ddVars, selVars, arVars, prVars, iaVars>>
vars == <<mainVars, sessVars, lpVars, rfVars, qVars, netVars, exVars, rsVars, ddVars, selVars, arVars, prVars, iaVars, apVars>>

\* ------------------------------------------------------------------ bounds
MaxFragments == 2
MaxCand == 2
MaxLinkCand == 3
MaxLinksBound == 2

\* ------------------------------------------------------- program constants
forceBrowser == FALSE
radial == TRUE
renderLinks == TRUE
maxLinks == 1
DefaultMaxLinks == 10
TopSession == 0

Min(a, b) == IF a < b THEN a ELSE b
Max(a, b) == IF a > b THEN a ELSE b

\* ------------------------------------------------------------ html input
MaxCards == 3

\* What needBrowserFallback reads of a page: which of the substrings it looks
\* for the lower-cased text includes, and how many times its class regex matches.
\* "via.placeholder.com" includes "placeholder.com", which includes "placeholder".
HtmlSet ==
    { h \in [viaPlaceholderCom : BOOLEAN, placeholderCom : BOOLEAN,
             skeleton : BOOLEAN, placeholder : BOOLEAN, matches : 0..MaxCards] :
        /\ h.viaPlaceholderCom => h.placeholderCom
        /\ h.placeholderCom => h.placeholder }

\* needBrowserFallback asking for more than two cards
needBrowserFallback_moreThanTwo(html) ==
    IF html.viaPlaceholderCom \/ html.placeholderCom THEN TRUE
    ELSE IF html.skeleton \/ html.placeholder THEN TRUE
    ELSE IF html.matches <= 2 THEN TRUE
    ELSE FALSE

needBrowserFallback(html) ==
    IF html.viaPlaceholderCom \/ html.placeholderCom THEN TRUE
    ELSE IF html.skeleton \/ html.placeholder THEN TRUE
    ELSE IF html.matches < 2 THEN TRUE
    ELSE FALSE

\* ------------------------------------------------- processLinksFromContent
\* links.slice(0, n).length for an array of c links
SliceLen(c, n) == IF n >= 0 THEN Min(c, n) ELSE Max(c + n, 0)

\* opts.maxLinks || 10
EffectiveMaxLinks(m) == IF m = 0 THEN DefaultMaxLinks ELSE m

\* links.slice(0, n)
Slice(links, n) == SubSeq(links, 1, SliceLen(Len(links), n))

\* processedLinks = links.slice(0, maxLinks) of the call in progress
processedLinks == Slice(lp_found, EffectiveMaxLinks(lp_max))

\* The calls of renderLinkAndExtractMarkdown made before the loop first yields,
\* if every link were started without awaiting the one before
FirstCalls_concurrent(links) == links

\* The calls of renderLinkAndExtractMarkdown made before the loop first yields:
\* the call for processedLinks[0] is awaited, so it is the only one.
FirstCalls(links) == <<links[1]>>

\* The synchronous head of processLinksFromContent(html, {maxLinks: m}): the base
\* markdown, extractFilteredLinks (one parse-only JSDOM, never closed) finding c
\* links or throwing, the early return on no link, and the first call of
\* renderLinkAndExtractMarkdown up to its await of retryFetch.
LpEnter(c, threw, m) ==
    /\ plainOpen' = plainOpen + 1
    /\ lp_sections' = <<>>
    /\ lp_log' = <<>>
    /\ lp_cur' = 0
    /\ lp_leaked' = lp_leaked
    /\ lp_max' = m
    /\ lp_found' = IF threw THEN <<>> ELSE [k \in 1..c |-> k]
    /\ lp_n' = SliceLen(Len(lp_found'), EffectiveMaxLinks(m))
    /\ IF lp_n' = 0
       THEN /\ lp_pc' = "returned"
            /\ lp_i' = 0
            /\ lp_started' = <<>>
            /\ lp_total' = lp_total
       ELSE /\ lp_pc' = "link_fetch"
            /\ lp_i' = 1
            /\ lp_started' = FirstCalls(Slice(lp_found', EffectiveMaxLinks(m)))
            /\ lp_total' = lp_total + Len(lp_started')

\* LpSection expanding the linked page as well: after the first linked page is
\* converted, renderLinkAndExtractMarkdown is called for a link found inside it
\* (written 0: it is none of the links of the input) before the loop goes on.
LpSection_expands(kind) ==
    IF kind = "ok" /\ Len(lp_started) = lp_i
    THEN /\ lp_sections' = lp_sections
         /\ lp_i' = lp_i
         /\ lp_pc' = "link_fetch"
         /\ lp_started' = Append(lp_started, 0)
         /\ lp_total' = lp_total + 1
         /\ UNCHANGED <<lp_n, lpCall>>
    ELSE /\ lp_sections' = Append(lp_sections,
                                  [num |-> lp_i, url |-> processedLinks[lp_i], kind |-> kind])
         /\ IF lp_i < lp_n
            THEN /\ lp_i' = lp_i + 1
                 /\ lp_pc' = "link_fetch"
                 /\ lp_started' = Append(lp_started, processedLinks[lp_i + 1])
                 /\ lp_total' = lp_total + 1
            ELSE /\ lp_i' = lp_i
                 /\ lp_pc' = "returned"
                 /\ lp_started' = lp_started
                 /\ lp_total' = lp_total
         /\ UNCHANGED <<lp_n, lpCall>>

\* LpSection leaving the loop when a link failed
LpSection_aborts(kind) ==
    /\ lp_sections' = Append(lp_sections,
                             [num |-> lp_i, url |-> processedLinks[lp_i], kind |-> kind])
    /\ IF lp_i < lp_n /\ kind # "failed"
       THEN /\ lp_i' = lp_i + 1
            /\ lp_pc' = "link_fetch"
            /\ lp_started' = Append(lp_started, processedLinks[lp_i + 1])
            /\ lp_total' = lp_total + 1
       ELSE /\ lp_i' = lp_i
            /\ lp_pc' = "returned"
            /\ lp_started' = lp_started
            /\ lp_total' = lp_total
    /\ UNCHANGED <<lp_n, lpCall>>

\* The end of one iteration of the for loop over processedLinks: the section of
\* link i is appended ("ok": its markdown, "failed": the [Failed to load: ...]
\* placeholder of the catch), then renderLinkAndExtractMarkdown is called for the
\* next link or the function returns.
LpSection(kind) ==
    /\ lp_sections' = Append(lp_sections,
                             [num |-> lp_i, url |-> processedLinks[lp_i], kind |-> kind])
    /\ IF lp_i < lp_n
       THEN /\ lp_i' = lp_i + 1
            /\ lp_pc' = "link_fetch"
            /\ lp_started' = Append(lp_started, processedLinks[lp_i + 1])
            /\ lp_total' = lp_total + 1
       ELSE /\ lp_i' = lp_i
            /\ lp_pc' = "returned"
            /\ lp_started' = lp_started
            /\ lp_total' = lp_total
    /\ UNCHANGED <<lp_n, lpCall>>

\* simpleMarkdown.length > 100
QuickThreshold == 100
\* the quick extraction threw, or the document has no body: there is no simpleMarkdown
QuickThrew == -1
\* lengths of simpleMarkdown around the threshold
QuickLens == {QuickThrew, 0, QuickThreshold, QuickThreshold + 1}

\* QuickEnough with the comparison >=
QuickEnough_atLeast(len) == len >= QuickThreshold

\* simpleMarkdown && simpleMarkdown.length > 100: the quick result is returned
QuickEnough(len) == len > QuickThreshold

\* renderLinkAndExtractMarkdown resumes from await retryFetch / res.text().
\*   fetched = FALSE: the fetch threw; the outer catch rethrows.
\*   qlen: what the quick extraction on a parse-only JSDOM gives:
\*     QuickThrew: the constructor or the conversion threw (caught, ignored),
\*     otherwise the length of simpleMarkdown; when it is enough simpleDom is
\*     closed and the markdown returned, else simpleDom is left as it is.
\*   built = FALSE: the constructor of the script-executing JSDOM threw.
LinkFetched ==
    /\ UNCHANGED besidePipeline
    /\ lp_pc = "link_fetch"
    /\ \E fetched \in BOOLEAN, qlen \in QuickLens, built \in BOOLEAN :
        IF ~fetched
        THEN /\ lp_log' = Append(lp_log, [fetched |-> FALSE, qlen |-> QuickThrew,
                                          attempted |-> FALSE, session |-> 0])
             /\ LpSection("failed")
             /\ UNCHANGED <<sessVars, lp_cur, lp_leaked>>
        ELSE IF QuickEnough(qlen)
        THEN /\ lp_log' = Append(lp_log, [fetched |-> TRUE, qlen |-> qlen,
                                          attempted |-> FALSE, session |-> 0])
             /\ LpSection("ok")
             /\ UNCHANGED <<sessVars, lp_cur, lp_leaked>>
        ELSE IF ~built
        THEN /\ lp_log' = Append(lp_log, [fetched |-> TRUE, qlen |-> qlen,
                                          attempted |-> TRUE, session |-> 0])
             /\ LpSection("failed")
             /\ plainOpen' = plainOpen + (IF qlen # QuickThrew THEN 1 ELSE 0)
             /\ UNCHANGED <<openSessions, sessCount, lp_cur, lp_leaked>>
        ELSE /\ lp_log' = Append(lp_log, [fetched |-> TRUE, qlen |-> qlen,
                                          attempted |-> TRUE, session |-> sessCount + 1])
             /\ plainOpen' = plainOpen + (IF qlen # QuickThrew THEN 1 ELSE 0)
             /\ sessCount' = sessCount + 1
             /\ openSessions' = openSessions \cup {sessCount + 1}
             /\ lp_cur' = sessCount + 1
             /\ lp_pc' = "link_quiesce"
             /\ UNCHANGED <<lp_n, lp_i, lp_sections, lp_leaked, lpCall, lp_started, lp_total>>
    /\ UNCHANGED mainVars

\* await waitForQuiescence(dom.window, ...) resolves; the network-idle loop starts.
LinkQuiesced ==
    /\ UNCHANGED besidePipeline
    /\ lp_pc = "link_quiesce"
    /\ lp_pc' = "link_netidle"
    /\ UNCHANGED <<mainVars, sessVars, lp_n, lp_i, lp_sections, lp_cur, lp_leaked,
                   lpCall, lp_started, lp_total, lp_log>>

\* dom.window.close && dom.window.close()
LinkClose ==
    /\ openSessions' = openSessions \ {lp_cur}
    /\ lp_cur' = 0

\* The network-idle loop ends; body.innerHTML is read, the window closed and the
\* markdown built (converted = FALSE: convertToLlmReadyMarkdown threw, rethrown).
LinkNetIdle ==
    /\ UNCHANGED besidePipeline
    /\ lp_pc = "link_netidle"
    /\ LinkClose
    /\ lp_leaked' = lp_leaked + (IF lp_cur \in openSessions' THEN 1 ELSE 0)
    /\ \E converted \in BOOLEAN :
        LpSection(IF converted THEN "ok" ELSE "failed")
    /\ UNCHANGED <<mainVars, sessCount, plainOpen, lp_log>>

\* processLinksFromContent(html, {renderLinks: true, maxLinks: lp_max}) is called
\* on an input with c candidate links.
LpCall ==
    /\ UNCHANGED besidePipeline
    /\ lp_pc = "called"
    /\ \E c \in 0..MaxLinkCand, threw \in BOOLEAN : LpEnter(c, threw, lp_max)
    /\ UNCHANGED <<mainVars, openSessions, sessCount>>

\* ------------------------------------------------------------------ main()
\* process.exit(code), after console.error(msg) when msg is given
Exit(code, msg) ==
    /\ pc' = "exited"
    /\ exitCode' = code
    /\ stderr' = IF msg = "" THEN stderr ELSE Append(stderr, msg)

\* main() returns: the process ends with exit code 0
Return ==
    /\ pc' = "exited"
    /\ exitCode' = 0
    /\ stderr' = stderr

\* fs.writeFileSync(out, ...) / process.stdout.write(...) completed for `stage`
Written(stage) ==
    /\ output' = stage
    /\ writes' = writes + 1

\* 1) try simple fetch: the stage is entered and simpleFetch awaited
EnterSimple ==
    /\ tried' = Append(tried, "simple")
    /\ pc' = "simple_fetch"

\* 2) try jsdom render: the stage is entered and retryFetch awaited
EnterRender ==
    /\ tried' = Append(tried, "render")
    /\ pc' = "render_fetch"

\* fallback simple fetch: the stage is entered and simpleFetch awaited
EnterFallback ==
    /\ tried' = Append(tried, "fallback")
    /\ pc' = "fallback_fetch"

\* AfterSimpleWritten without the return: control falls through to stage 2
AfterSimpleWritten_fallsThrough ==
    /\ EnterRender
    /\ UNCHANGED <<exitCode, stderr>>

\* The return that follows the write of stage 1
AfterSimpleWritten == Return /\ tried' = tried

\* Argument parsing up to the first await: usage errors exit with code 2,
\* otherwise stage 1 starts (or the fallback, when forceBrowser is set).
MainStart ==
    /\ UNCHANGED besidePipeline
    /\ pc = "start"
    /\ IF ~argv.url
       THEN Exit(2, "usage") /\ tried' = tried
       ELSE IF ~argv.term
       THEN Exit(2, "term required") /\ tried' = tried
       ELSE /\ IF forceBrowser THEN EnterFallback ELSE EnterSimple
            /\ UNCHANGED <<exitCode, stderr>>
    /\ UNCHANGED <<waitEnds, extracted, argv, simpleRes, renderRes, fallbackRes, output, writes,
                   results, fragIdx, sessVars, lpVars>>

\* await simpleFetch(...) of stage 1 settles.
\*   fetched = FALSE: it threw; the catch of stage 1 swallows the error.
\*   html: the body; wrote = FALSE: the write threw (caught by the same catch).
SimpleDone ==
    /\ UNCHANGED besidePipeline
    /\ pc = "simple_fetch"
    /\ \E fetched \in BOOLEAN, html \in HtmlSet, wrote \in BOOLEAN :
        IF ~fetched
        THEN /\ simpleRes' = "failed"
             /\ EnterRender
             /\ UNCHANGED <<output, writes, exitCode, stderr>>
        ELSE IF needBrowserFallback(html)
        THEN /\ simpleRes' = "escalated"
             /\ EnterRender
             /\ UNCHANGED <<output, writes, exitCode, stderr>>
        ELSE IF wrote
        THEN /\ simpleRes' = "written"
             /\ Written("simple")
             /\ AfterSimpleWritten
        ELSE /\ simpleRes' = "write_failed"
             /\ EnterRender
             /\ UNCHANGED <<output, writes, exitCode, stderr>>
    /\ UNCHANGED <<waitEnds, extracted, argv, renderRes, fallbackRes, results, fragIdx, sessVars, lpVars>>

\* RenderCatch rethrowing: the error reaches the outer catch, which exits with 1
RenderCatch_rethrows(kind) ==
    /\ renderRes' = kind
    /\ Exit(1, "Error")
    /\ tried' = tried
    /\ UNCHANGED <<output, writes>>

\* catch(e) of stage 2: the error is swallowed and the fallback fetch starts.
\* The window, when one was created, is not touched.
RenderCatch(kind) ==
    /\ renderRes' = kind
    /\ EnterFallback
    /\ UNCHANGED <<output, writes, exitCode, stderr>>

\* await retryFetch / res.text() of stage 2 settles and the JSDOM is constructed
\* (built = FALSE: the constructor threw); waitForQuiescence is then awaited.
RenderFetched ==
    /\ UNCHANGED besidePipeline
    /\ pc = "render_fetch"
    /\ \E fetched \in BOOLEAN, built \in BOOLEAN :
        IF ~fetched
        THEN /\ RenderCatch("fetch_failed")
             /\ UNCHANGED openSessions
        ELSE IF ~built
        THEN /\ RenderCatch("dom_failed")
             /\ UNCHANGED openSessions
        ELSE /\ openSessions' = openSessions \cup {TopSession}
             /\ pc' = "render_quiesce"
             /\ UNCHANGED <<tried, renderRes, output, writes, exitCode, stderr>>
    /\ UNCHANGED <<waitEnds, extracted, argv, simpleRes, fallbackRes, results, fragIdx,
                   sessCount, plainOpen, lpVars>>

\* Whether control reaches the statement after a wait that ended `how`:
\* waitForQuiescence calls resolve() for the quiet window and for the ceiling
\* alike and never rejects; the network-idle loop is left by break or by its
\* condition, and neither throws.
WaitEnded_timeoutThrows(how) == how # "ceiling"

WaitEnded(how) == how \in {"quiet", "ceiling"}

\* await waitForQuiescence(dom.window, ...) resolves (how); the network-idle
\* loop starts.
RenderQuiesced ==
    /\ UNCHANGED besidePipeline
    /\ pc = "render_quiesce"
    /\ \E how \in {"quiet", "ceiling"} :
        /\ waitEnds' = Append(waitEnds, how)
        /\ IF WaitEnded(how)
           THEN /\ pc' = "render_netidle"
                /\ UNCHANGED <<tried, renderRes, output, writes, exitCode, stderr>>
           ELSE RenderCatch("wait_failed")
    /\ UNCHANGED <<extracted, argv, simpleRes, fallbackRes, results, fragIdx,
                   sessVars, lpVars>>

\* RenderWrite without the return: after the write control reaches the fallback
RenderWrite_fallsThrough(wrote) ==
    IF wrote
    THEN /\ renderRes' = "written"
         /\ Written("render")
         /\ openSessions' = openSessions \ {TopSession}
         /\ EnterFallback
         /\ UNCHANGED <<exitCode, stderr>>
    ELSE /\ RenderCatch("write_failed")
         /\ UNCHANGED openSessions

\* Final output writing of stage 2: the write, then dom.window.close() and return.
\* wrote = FALSE: the write threw, and the catch of stage 2 takes over.
RenderWrite(wrote) ==
    IF wrote
    THEN /\ renderRes' = "written"
         /\ Written("render")
         /\ openSessions' = openSessions \ {TopSession}
         /\ Return
         /\ tried' = tried
    ELSE /\ RenderCatch("write_failed")
         /\ UNCHANGED openSessions

\* linksPerFragment = Math.max(1, Math.floor(maxLinks / results.length))
linksPerFragment(n) == Max(1, maxLinks \div n)

\* RenderExtract treating a search without fragments as an error
RenderExtract_emptyThrows(searched, n, wrote, c, threw) ==
    IF ~(radial /\ argv.term)
    THEN /\ pc' = "render_links"
         /\ results' = 0
         /\ fragIdx' = 0
         /\ LpEnter(c, threw, maxLinks)
         /\ UNCHANGED <<tried, renderRes, output, writes, exitCode, stderr,
                        openSessions, sessCount>>
    ELSE IF ~searched
    THEN /\ RenderCatch("extract_failed")
         /\ UNCHANGED <<results, fragIdx, sessVars, lpVars>>
    ELSE IF n = 0
    THEN /\ RenderCatch("extract_empty")
         /\ UNCHANGED <<results, fragIdx, sessVars, lpVars>>
    ELSE /\ results' = n
         /\ fragIdx' = 1
         /\ pc' = "render_links"
         /\ IF renderLinks
            THEN LpEnter(c, threw, linksPerFragment(n))
            ELSE /\ lp_pc' = "returned"
                 /\ UNCHANGED <<plainOpen, lp_n, lp_i, lp_sections, lp_cur, lp_leaked,
                                lpCall, lp_started, lp_total, lp_log>>
         /\ UNCHANGED <<tried, renderRes, output, writes, exitCode, stderr,
                        openSessions, sessCount>>

\* Extraction of stage 2: scripts are removed and performRadialSearch runs
\* (searched = FALSE: it threw), finding n fragments.  With no fragment the
\* placeholder is written; otherwise the fragment loop starts and awaits
\* processLinksFromContent for fragment 1 (c links found, or extraction threw).
RenderExtract(searched, n, wrote, c, threw) ==
    IF ~(radial /\ argv.term)
    THEN /\ pc' = "render_links"
         /\ results' = 0
         /\ fragIdx' = 0
         /\ LpEnter(c, threw, maxLinks)
         /\ UNCHANGED <<tried, renderRes, output, writes, exitCode, stderr,
                        openSessions, sessCount>>
    ELSE IF ~searched
    THEN /\ RenderCatch("extract_failed")
         /\ UNCHANGED <<results, fragIdx, sessVars, lpVars>>
    ELSE IF n = 0
    THEN /\ results' = 0
         /\ RenderWrite(wrote)
         /\ UNCHANGED <<fragIdx, sessCount, plainOpen, lpVars>>
    ELSE /\ results' = n
         /\ fragIdx' = 1
         /\ pc' = "render_links"
         /\ IF renderLinks
            THEN LpEnter(c, threw, linksPerFragment(n))
            ELSE /\ lp_pc' = "returned"
                 /\ UNCHANGED <<plainOpen, lp_n, lp_i, lp_sections, lp_cur, lp_leaked,
                                lpCall, lp_started, lp_total, lp_log>>
         /\ UNCHANGED <<tried, renderRes, output, writes, exitCode, stderr,
                        openSessions, sessCount>>

\* The network-idle loop ends (how), and extraction follows.
RenderNetIdle ==
    /\ UNCHANGED besidePipeline
    /\ pc = "render_netidle"
    /\ \E how \in {"quiet", "ceiling"}, searched \in BOOLEAN, n \in 0..MaxFragments,
          wrote \in BOOLEAN, c \in 0..MaxCand, threw \in BOOLEAN :
        /\ waitEnds' = Append(waitEnds, how)
        /\ extracted' = WaitEnded(how)
        /\ IF WaitEnded(how)
           THEN RenderExtract(searched, n, wrote, c, threw)
           ELSE /\ RenderCatch("wait_failed")
                /\ UNCHANGED <<results, fragIdx, sessVars, lpVars>>
    /\ UNCHANGED <<argv, simpleRes, fallbackRes>>

\* await processLinksFromContent(...) settles for fragment fragIdx: the fragment
\* is pushed, then the next fragment is started or the joined output written.
RenderLinksReturned ==
    /\ UNCHANGED besidePipeline
    /\ pc = "render_links"
    /\ lp_pc = "returned"
    /\ \E wrote \in BOOLEAN, c \in 0..MaxCand, threw \in BOOLEAN :
        IF fragIdx < results
        THEN /\ fragIdx' = fragIdx + 1
             /\ LpEnter(c, threw, linksPerFragment(results))
             /\ UNCHANGED <<pc, tried, renderRes, output, writes, exitCode, stderr,
                            openSessions, sessCount>>
        ELSE /\ RenderWrite(wrote)
             /\ lp_pc' = "idle"
             /\ UNCHANGED <<fragIdx, sessCount, plainOpen, lp_n, lp_i, lp_sections,
                            lp_cur, lp_leaked, lpCall, lp_started, lp_total, lp_log>>
    /\ UNCHANGED <<waitEnds, extracted, argv, simpleRes, fallbackRes, results>>

\* await simpleFetch(url, timeout) of the fallback settles: the body is written,
\* or the catch prints 'All methods failed' and exits with code 1.
FallbackDone ==
    /\ UNCHANGED besidePipeline
    /\ pc = "fallback_fetch"
    /\ \E fetched \in BOOLEAN, wrote \in BOOLEAN :
        IF ~fetched
        THEN /\ fallbackRes' = "fetch_failed"
             /\ Exit(1, "All methods failed")
             /\ UNCHANGED <<output, writes>>
        ELSE IF ~wrote
        THEN /\ fallbackRes' = "write_failed"
             /\ Exit(1, "All methods failed")
             /\ UNCHANGED <<output, writes>>
        ELSE /\ fallbackRes' = "written"
             /\ Written("fallback")
             /\ Return
    /\ UNCHANGED <<waitEnds, extracted, argv, tried, simpleRes, renderRes, results, fragIdx, sessVars, lpVars>>

\* -------------------------------------------------------------- retryFetch
MaxAttemptsBound == 4

\* defaultConfig.maxRetries, the default of the parameter maxRetries
defaultMaxRetries == 3

\* fetch(url, opts) rejected: no response, a transport failure
TransportError == 0

\* what one attempt can give: a transport failure or a response status
Outcomes == {TransportError, 199, 200, 404, 499, 500, 503}

\* Accepted letting only 2xx pass
Accepted_only2xx(status) == status >= 200 /\ status < 300

\* res.status >= 200 && res.status < 500
Accepted(status) == status >= 200 /\ status < 500

\* LoopTest with an inclusive bound
LoopTest_inclusive(attempt, maxRetries) == attempt <= maxRetries

\* the loop condition attempt < maxRetries
LoopTest(attempt, maxRetries) == attempt < maxRetries

\* IsLastAttempt off by one
IsLastAttempt_offByOne(attempt, maxRetries) == attempt = maxRetries

\* attempt === maxRetries - 1
IsLastAttempt(attempt, maxRetries) == attempt = maxRetries - 1

\* Delay growing linearly
Delay_linear(attempt) == (attempt + 1) * 1000

\* Math.pow(2, attempt) * 1000
Delay(attempt) == (2 ^ attempt) * 1000

\* The loop head for the value a of attempt: the next fetch is issued, or the
\* loop is left and the async function returns undefined.
RfLoop(a) ==
    /\ rf_attempt' = a
    /\ IF LoopTest(a, rf_max)
       THEN /\ rf_pc' = "fetching"
            /\ rf_issued' = rf_issued + 1
       ELSE /\ rf_pc' = "undefined"
            /\ rf_issued' = rf_issued

\* retryFetch(url, opts, maxRetries) is called
RfCall ==
    /\ rf_pc = "called"
    /\ RfLoop(0)
    /\ UNCHANGED <<rf_max, rf_log, rf_slept, rf_result>>
    /\ UNCHANGED besideRetry

\* await fetch(url, opts) settles with outcome o: an accepted response is
\* returned; anything else lands in the catch, which rethrows on the last
\* attempt and otherwise starts the backoff wait.
RfSettle ==
    /\ rf_pc = "fetching"
    /\ \E o \in Outcomes :
        /\ rf_log' = Append(rf_log, o)
        /\ IF o # TransportError /\ Accepted(o)
           THEN /\ rf_pc' = "returned"
                /\ rf_result' = o
                /\ rf_slept' = rf_slept
           ELSE IF IsLastAttempt(rf_attempt, rf_max)
           THEN /\ rf_pc' = "threw"
                /\ rf_result' = o
                /\ rf_slept' = rf_slept
           ELSE /\ rf_pc' = "sleeping"
                /\ rf_result' = rf_result
                /\ rf_slept' = Append(rf_slept, Delay(rf_attempt))
    /\ UNCHANGED <<rf_max, rf_attempt, rf_issued>>
    /\ UNCHANGED besideRetry

\* the backoff timer fires: attempt++ and the loop head
RfWake ==
    /\ rf_pc = "sleeping"
    /\ RfLoop(rf_attempt + 1)
    /\ UNCHANGED <<rf_max, rf_log, rf_slept, rf_result>>
    /\ UNCHANGED besideRetry

RfIdle ==
    /\ rf_pc = "idle"
    /\ rf_max = defaultMaxRetries
    /\ rf_attempt = 0
    /\ rf_issued = 0
    /\ rf_log = <<>>
    /\ rf_slept = <<>>
    /\ rf_result = -1

RfInit ==
    /\ rf_pc = "called"
    /\ rf_max \in -1..MaxAttemptsBound
    /\ rf_attempt = 0
    /\ rf_issued = 0
    /\ rf_log = <<>>
    /\ rf_slept = <<>>
    /\ rf_result = -1

\* ------------------------------------------------------- waitForQuiescence
\* Time is counted in ticks of 50 ms.
MaxTime == 7
MaxQuiet == 4
MaxTimeout == 4

\* setTimeout(check, 100): the polling period, 2 ticks
PollTicks == 2
\* setTimeout(check, 50) of the load listener, 1 tick
LoadDelayTicks == 1

\* ObserverCallback forgetting to record the time
ObserverCallback_stale == UNCHANGED q_lastChange

\* the MutationObserver callback: lastChange = Date.now()
ObserverCallback == q_lastChange' = q_now

\* obs.disconnect(); resolve();
QResolve ==
    /\ q_observing' = FALSE
    /\ q_disconnects' = q_disconnects + 1
    /\ q_resolves' = q_resolves + 1
    /\ q_resolvedAt' = IF q_resolvedAt = -1 THEN q_now ELSE q_resolvedAt
    /\ q_pc' = "resolved"

\* the body of check(), `rest` being the timers still pending
check(rest) ==
    IF q_now - q_lastChange >= q_quiet
    THEN QResolve /\ q_timers' = rest
    ELSE IF q_now - q_start >= q_timeout
    THEN QResolve /\ q_timers' = rest
    ELSE /\ q_timers' = Append(rest, q_now + PollTicks)
         /\ UNCHANGED <<q_observing, q_disconnects, q_resolves, q_resolvedAt, q_pc>>

RemoveAt(seq, i) == SubSeq(seq, 1, i - 1) \o SubSeq(seq, i + 1, Len(seq))

\* waitForQuiescence(window, {timeout, quiet}) is called: the promise executor.
\* ready: window.document.readyState === 'complete'.
QCall ==
    /\ q_pc = "called"
    /\ q_pc' = "waiting"
    /\ q_lastChange' = q_now
    /\ q_start' = q_now
    /\ q_observing' = TRUE
    /\ \E ready \in BOOLEAN :
        IF ready
        THEN /\ q_timers' = <<q_now + q_quiet>>
             /\ q_loadPending' = FALSE
        ELSE /\ q_timers' = <<q_now + PollTicks>>
             /\ q_loadPending' = TRUE
    /\ UNCHANGED <<q_quiet, q_timeout, q_now, q_lastMut, q_resolvedAt, q_resolves,
                   q_disconnects>>
    /\ UNCHANGED besideQuiesce

\* the load event fires: the listener schedules check after 50 ms
QLoad ==
    /\ q_loadPending
    /\ q_loadPending' = FALSE
    /\ q_timers' = Append(q_timers, q_now + LoadDelayTicks)
    /\ UNCHANGED <<q_pc, q_quiet, q_timeout, q_now, q_start, q_lastChange, q_observing,
                   q_lastMut, q_resolvedAt, q_resolves, q_disconnects>>
    /\ UNCHANGED besideQuiesce

\* the page mutates the document while the observer is connected
QMutate ==
    /\ q_observing
    /\ ObserverCallback
    /\ q_lastMut' = q_now
    /\ UNCHANGED <<q_pc, q_quiet, q_timeout, q_now, q_start, q_observing, q_timers,
                   q_loadPending, q_resolvedAt, q_resolves, q_disconnects>>
    /\ UNCHANGED besideQuiesce

\* a pending timer whose delay has elapsed fires and runs check()
QCheck ==
    /\ \E i \in 1..Len(q_timers) :
        /\ q_timers[i] <= q_now
        /\ check(RemoveAt(q_timers, i))
    /\ UNCHANGED <<q_quiet, q_timeout, q_now, q_start, q_lastChange, q_loadPending,
                   q_lastMut>>
    /\ UNCHANGED besideQuiesce

\* time passes
QTick ==
    /\ q_pc # "idle"
    /\ q_now < MaxTime
    /\ q_now' = q_now + 1
    /\ UNCHANGED <<q_pc, q_quiet, q_timeout, q_start, q_lastChange, q_observing,
                   q_timers, q_loadPending, q_lastMut, q_resolvedAt, q_resolves,
                   q_disconnects>>
    /\ UNCHANGED besideQuiesce

\* time passes, and no timer is kept waiting: the event loop is not blocked
QTickPrompt ==
    /\ \A i \in 1..Len(q_timers) : q_timers[i] > q_now
    /\ QTick

QFresh ==
    /\ q_now = 0
    /\ q_start = 0
    /\ q_lastChange = 0
    /\ q_observing = FALSE
    /\ q_timers = <<>>
    /\ q_loadPending = FALSE
    /\ q_lastMut = -1
    /\ q_resolvedAt = -1
    /\ q_resolves = 0
    /\ q_disconnects = 0

\* no wait in progress: nothing of the wait can act
QIdle ==
    /\ QFresh
    /\ q_pc = "idle"
    /\ q_quiet = 0
    /\ q_timeout = 0

QInit ==
    /\ QFresh
    /\ q_pc = "called"
    /\ q_quiet \in 1..MaxQuiet
    /\ q_timeout \in 1..MaxTimeout

\* ------------------------------------------------- the network-idle loop
\* Time is counted in ticks of 100 ms.
MaxNetTime == 8
MaxNetIdle == 3
MaxNetCeiling == 5
MaxPending == 2

\* setTimeout(r, 200): the polling period, 2 ticks
NetPollTicks == 2
\* the value 0 of lastZero: "the counter was not zero at the last poll"
NoZero == -1

\* One evaluation of the loop condition and, when it holds, of the loop body, up
\* to the await; lz is the value of lastZero before it.
NetIterate(lz) ==
    IF n_now - n_startNet < n_ceiling
    THEN IF n_pending = 0
         THEN LET z == IF lz = NoZero THEN n_now ELSE lz
              IN  /\ n_lastZero' = z
                  /\ IF n_now - z >= n_idle
                     THEN /\ n_pc' = "ended"
                          /\ n_endedAt' = n_now
                          /\ n_endedBy' = "idle"
                          /\ n_due' = n_due
                     ELSE /\ n_pc' = "sleeping"
                          /\ n_due' = n_now + NetPollTicks
                          /\ UNCHANGED <<n_endedAt, n_endedBy>>
         ELSE /\ n_lastZero' = NoZero
              /\ n_pc' = "sleeping"
              /\ n_due' = n_now + NetPollTicks
              /\ UNCHANGED <<n_endedAt, n_endedBy>>
    ELSE /\ n_pc' = "ended"
         /\ n_endedAt' = n_now
         /\ n_endedBy' = "ceiling"
         /\ UNCHANGED <<n_lastZero, n_due>>

\* The loop is reached: startNet and lastZero are set and the first iteration runs.
NetEnter ==
    /\ n_pc = "called"
    /\ n_startNet' = n_now
    /\ n_startNet' = n_now => NetIterate(IF n_pending = 0 THEN n_now ELSE NoZero)
    /\ UNCHANGED <<n_idle, n_ceiling, n_now, n_pending, n_lastBusy>>
    /\ UNCHANGED besideNet

\* the 200 ms timer fires (not before its delay has elapsed): the next iteration
NetWake ==
    /\ n_pc = "sleeping"
    /\ n_due <= n_now
    /\ NetIterate(n_lastZero)
    /\ UNCHANGED <<n_idle, n_ceiling, n_now, n_startNet, n_pending, n_lastBusy>>
    /\ UNCHANGED besideNet

\* window.__incPending(): the page dispatches a request
NetRequestStart ==
    /\ n_pc = "sleeping"
    /\ n_pending < MaxPending
    /\ n_pending' = n_pending + 1
    /\ n_lastBusy' = n_now
    /\ UNCHANGED <<n_pc, n_idle, n_ceiling, n_now, n_startNet, n_lastZero, n_due,
                   n_endedAt, n_endedBy>>
    /\ UNCHANGED besideNet

\* window.__decPending(): a request completes or fails
NetRequestEnd ==
    /\ n_pc = "sleeping"
    /\ n_pending > 0
    /\ n_pending' = n_pending - 1
    /\ n_lastBusy' = n_now
    /\ UNCHANGED <<n_pc, n_idle, n_ceiling, n_now, n_startNet, n_lastZero, n_due,
                   n_endedAt, n_endedBy>>
    /\ UNCHANGED besideNet

\* time passes while the loop sleeps
NetTick ==
    /\ n_pc = "sleeping"
    /\ n_now < MaxNetTime
    /\ n_now' = n_now + 1
    /\ n_lastBusy' = IF n_pending > 0 THEN n_now + 1 ELSE n_lastBusy
    /\ UNCHANGED <<n_pc, n_idle, n_ceiling, n_startNet, n_lastZero, n_pending, n_due,
                   n_endedAt, n_endedBy>>
    /\ UNCHANGED besideNet

\* time passes, and no timer is kept waiting: the event loop is not blocked
NetTickPrompt ==
    /\ n_due > n_now
    /\ NetTick

NetFresh ==
    /\ n_now = 0
    /\ n_startNet = 0
    /\ n_lastZero = NoZero
    /\ n_due = 0
    /\ n_endedAt = -1
    /\ n_endedBy = "none"

\* no loop in progress: nothing of the loop can act
NetIdle ==
    /\ NetFresh
    /\ n_pc = "idle"
    /\ n_idle = 0
    /\ n_ceiling = 0
    /\ n_pending = 0
    /\ n_lastBusy = -1

\* the loop is about to start, with some requests possibly in flight already
NetInit ==
    /\ NetFresh
    /\ n_pc = "called"
    /\ n_idle \in 1..MaxNetIdle
    /\ n_ceiling \in 1..MaxNetCeiling
    /\ n_pending \in 0..MaxPending
    /\ n_lastBusy = IF n_pending > 0 THEN 0 ELSE -1

\* ---------------------------------------------------- extractFilteredLinks
MaxHrefs == 1

\* What extractFilteredLinks reads of one href text of the input:
\*   source  where it stands: the href attribute of an <a>, or the (...) part of
\*           a [text](...) pattern in the html text
\*   scheme  what the text is after its leading white space: a javascript: or
\*           mailto: url, a #fragment, nothing, a url with another scheme
\*           ("http"), or a relative reference
\*   upper   the scheme is not written in lower case (JavaScript:, MAILTO:)
\*   pad     the text starts with white space
\*   image   "ext": the text ends with an image extension; "mime": it contains
\*           "image/"
\*   invalid new URL() rejects the text whatever the base
HrefSet ==
    { h \in [source : {"anchor", "markdown"},
             scheme : {"javascript", "mailto", "hash", "empty", "http", "relative"},
             upper : BOOLEAN, pad : BOOLEAN,
             image : {"none", "ext", "mime"}, invalid : BOOLEAN] :
        /\ h.upper => h.scheme \in {"javascript", "mailto", "http"}
        /\ h.image # "none" => h.scheme \in {"http", "relative"}
        /\ h.invalid => h.scheme = "http"
        \* the pattern \(([^)]+)\) captures at least one character
        /\ h.source = "markdown" /\ h.scheme = "empty" => h.pad }

\* href.trim()
Trim(h) == [h EXCEPT !.pad = FALSE]

\* !href || !href.trim()
IsBlank(h) == h.scheme = "empty"

\* href.startsWith(prefix), for the prefixes 'javascript:', 'mailto:' and '#':
\* the comparison is exact, from the first character
StartsWith(h, prefix) == ~h.pad /\ ~h.upper /\ h.scheme = prefix

\* imageExtensions.some(ext => hrefLower.endsWith(ext)) ||
\* imageMimeTypes.some(mime => hrefLower.includes(mime))
isImage(h) == h.image \in {"ext", "mime"}

\* new URL(href, base) does not throw: a relative reference needs a base that
\* has a hierarchy (without baseUrl the base is document.baseURI, about:blank)
UrlParses(h, base) ==
    /\ ~h.invalid
    /\ h.scheme \in {"relative", "empty"} => base

\* new URL(href, base).href: the parser strips the white space around the text
\* and lower-cases the scheme; the result is always an absolute url.
Resolve(h) ==
    [scheme |-> IF h.scheme \in {"javascript", "mailto", "http"} THEN h.scheme ELSE "base",
     fragmentOf |-> IF h.scheme = "hash" THEN "base" ELSE "none",
     image |-> h.image,
     absolute |-> TRUE]

\* links.forEach(link => ...): the test an <a href> passes to be pushed
AnchorKept(h, base) ==
    /\ h.source = "anchor"
    /\ ~IsBlank(h)
    /\ ~(StartsWith(h, "javascript") \/ StartsWith(h, "mailto") \/ StartsWith(h, "hash"))
    /\ ~isImage(h)
    /\ UrlParses(h, base)

\* extractMarkdownLinks: the test a [text](href) match passes to be pushed
MarkdownKept(h, base) ==
    /\ h.source = "markdown"
    /\ ~IsBlank(Trim(h))
    /\ ~(StartsWith(Trim(h), "javascript") \/ StartsWith(Trim(h), "mailto")
          \/ StartsWith(Trim(h), "hash"))
    /\ base
    /\ UrlParses(h, base)

Includes(seq, x) == \E i \in 1..Len(seq) : seq[i] = x

RECURSIVE extractMarkdownLinks(_, _, _)
extractMarkdownLinks(content, base, existing) ==
    IF content = <<>> THEN existing
    ELSE LET h == Head(content)
             url == Resolve(h)
         IN  extractMarkdownLinks(Tail(content), base,
                 IF MarkdownKept(h, base) /\ ~Includes(existing, url)
                 THEN Append(existing, url)
                 ELSE existing)

extractFilteredLinks(html, base) ==
    LET kept == SelectSeq(html, LAMBDA h : AnchorKept(h, base))
        filteredLinks == [i \in 1..Len(kept) |-> Resolve(kept[i])]
    IN  extractMarkdownLinks(html, base, filteredLinks)

ExCall ==
    /\ ex_pc = "called"
    /\ ex_pc' = "returned"
    /\ ex_out' = extractFilteredLinks(ex_html, ex_base)
    /\ UNCHANGED <<ex_html, ex_base>>
    /\ UNCHANGED besideExtract

\* extractFilteredLinks is not called
ExIdle ==
    /\ ex_pc = "idle"
    /\ ex_html = <<>>
    /\ ex_base = FALSE
    /\ ex_out = <<>>

\* extractFilteredLinks(html, baseUrl) is about to be called
ExInit ==
    /\ ex_pc = "called"
    /\ ex_html \in UNION { [1..n -> HrefSet] : n \in 0..MaxHrefs }
    /\ ex_base \in BOOLEAN
    /\ ex_out = <<>>

\* ----------------------------------------------------- performRadialSearch
MaxNodes == 5
MaxRadius == 2

\* opts.radiusLevels || 3
DefaultRadiusLevels == 3
\* parentElement of the root: null
NoNode == 0

\* A document is the sequence of its nodes in document order (depth first);
\* node 1 is <html> and node 2 its <body>.  A node is an element with a tag or
\* a text node, which contains the term (match) or not.
EmptyDoc ==
    << [parent |-> NoNode, kind |-> "element", tag |-> "HTML", match |-> FALSE],
       [parent |-> 1, kind |-> "element", tag |-> "BODY", match |-> FALSE] >>

\* the nodes from n up to the root, n first
RECURSIVE PathToRoot(_, _)
PathToRoot(doc, n) ==
    IF n = NoNode THEN <<>> ELSE <<n>> \o PathToRoot(doc, doc[n].parent)

\* The nodes that can follow the last node of doc in document order: a child of
\* the last node or of one of its ancestors below <html>; text nodes have no
\* children and a script or style element holds text only.
NextNodes(doc) ==
    LET path == PathToRoot(doc, Len(doc))
        hosts == { path[i] : i \in 1..Len(path) } \ {1}
    IN  { r \in [parent : hosts, kind : {"element", "text"},
                 tag : {"DIV", "SVG", "SCRIPT", "STYLE", "#text"}, match : BOOLEAN] :
            /\ doc[r.parent].kind = "element"
            /\ r.kind = "text" <=> r.tag = "#text"
            /\ r.match => r.kind = "text"
            /\ doc[r.parent].tag \in {"SCRIPT", "STYLE"} => r.kind = "text" }

\* the documents of exactly n nodes
RECURSIVE DocsOfSize(_)
DocsOfSize(n) ==
    IF n <= 2 THEN {EmptyDoc}
    ELSE UNION { { Append(d, r) : r \in NextNodes(d) } : d \in DocsOfSize(n - 1) }

DocSet == UNION { DocsOfSize(n) : n \in 2..MaxNodes }

\* node.childNodes, in order
childNodes(doc, node) ==
    SelectSeq([i \in 1..Len(doc) |-> i], LAMBDA c : doc[c].parent = node)

\* node.parentElement
parentElement(doc, node) == doc[node].parent

\* findTextNodes(node): the matching text nodes below node, depth first, without
\* the subtrees of script and style elements
RECURSIVE findTextNodes(_, _)
RECURSIVE findInChildren(_, _)
findInChildren(doc, children) ==
    IF children = <<>> THEN <<>>
    ELSE findTextNodes(doc, Head(children)) \o findInChildren(doc, Tail(children))

findTextNodes(doc, node) ==
    IF doc[node].kind = "element"
    THEN IF doc[node].tag \in {"SCRIPT", "STYLE"}
         THEN <<>>
         ELSE findInChildren(doc, childNodes(doc, node))
    ELSE IF doc[node].match THEN <<node>> ELSE <<>>

\* radiusLevels
RadiusLevels(r) == IF r = 0 THEN DefaultRadiusLevels ELSE r

\* The ascension loop from el with i levels done: the element `best` it ends on
RECURSIVE Ascend(_, _, _, _)
Ascend(doc, el, i, levels) ==
    IF i < levels /\ el # NoNode
    THEN LET parent == parentElement(doc, el)
         IN  IF parent # NoNode /\ doc[parent].tag \notin {"BODY", "HTML"}
             THEN Ascend(doc, parent, i + 1, levels)
             ELSE el
    ELSE el

\* n is inside the subtree of a (a itself excluded)
IsBelow(doc, n, a) ==
    LET path == PathToRoot(doc, n)
    IN  \E i \in 2..Len(path) : path[i] = a

\* element.querySelectorAll('svg'): the svg elements below element
SvgsBelow(doc, element) ==
    { n \in 1..Len(doc) : doc[n].tag = "SVG" /\ IsBelow(doc, n, element) }

\* The text nodes that element.outerHTML holds when the svg elements of
\* `cleaned` have lost their children
TextIn(doc, element, cleaned) ==
    { n \in 1..Len(doc) :
        /\ doc[n].kind = "text"
        /\ IsBelow(doc, n, element)
        /\ \A g \in cleaned : ~IsBelow(doc, n, g) }

\* RadialLoop pushing no result for a fragment that an earlier result has
RECURSIVE RadialLoop_merging(_, _, _, _)
RadialLoop_merging(doc, textNodes, levels, acc) ==
    IF textNodes = <<>> THEN acc
    ELSE LET textNode == Head(textNodes)
             best == Ascend(doc, parentElement(doc, textNode), 0, levels)
             cleaned == acc[2] \cup SvgsBelow(doc, best)
             result == [from |-> textNode, best |-> best, tag |-> doc[best].tag,
                        text |-> TextIn(doc, best, cleaned)]
         IN  RadialLoop_merging(doc, Tail(textNodes), levels,
                 <<IF \E k \in 1..Len(acc[1]) : acc[1][k].best = best
                   THEN acc[1] ELSE Append(acc[1], result), cleaned>>)

\* The for loop over textNodes: one result per text node, after cleanSvgContent
\* emptied the svg elements of its fragment.  acc = <<results, cleaned>>.
RECURSIVE RadialLoop(_, _, _, _)
RadialLoop(doc, textNodes, levels, acc) ==
    IF textNodes = <<>> THEN acc
    ELSE LET textNode == Head(textNodes)
             best == Ascend(doc, parentElement(doc, textNode), 0, levels)
             cleaned == acc[2] \cup SvgsBelow(doc, best)
             result == [from |-> textNode, best |-> best, tag |-> doc[best].tag,
                        text |-> TextIn(doc, best, cleaned)]
         IN  RadialLoop(doc, Tail(textNodes), levels,
                        <<Append(acc[1], result), cleaned>>)

\* performRadialSearch(document, term, {radiusLevels: rs_radius})
RsCall ==
    /\ rs_pc = "called"
    /\ rs_pc' = "returned"
    /\ LET out == RadialLoop(rs_doc, findTextNodes(rs_doc, 2),
                             RadiusLevels(rs_radius), <<(<<>>), {}>>)
       IN  /\ rs_results' = out[1]
           /\ rs_cleaned' = out[2]
    /\ UNCHANGED <<rs_doc, rs_radius>>
    /\ UNCHANGED besideRadial

\* performRadialSearch is not called
RsIdle ==
    /\ rs_pc = "idle"
    /\ rs_doc = EmptyDoc
    /\ rs_radius = 0
    /\ rs_cleaned = {}
    /\ rs_results = <<>>

\* performRadialSearch(document, term, opts) is about to be called
RsInit ==
    /\ rs_pc = "called"
    /\ rs_doc \in DocSet
    /\ rs_radius \in 0..MaxRadius
    /\ rs_cleaned = {}
    /\ rs_results = <<>>

\* -------------------------------------------------------- DuplicateRemover
MaxLines == 3
MaxPriceLines == 5

\* A text is the sequence of its lines (content.split('\n'), never empty).  Of a
\* line the removers read its trimmed content, here a kind and an id, and the
\* result keeps whether white space stands before it (pad):
\*   "blank"  nothing but white space (pad: some white space)
\*   "text"   any other content
\*   "photo"  starts with '![' and includes 'imgserver.autocarro.com.br'
\*   "year"   matches /^20\d{2}\s*$/
\*   "price"  starts with 'R$' and includes ','
\*   "marker" starts with '<!-- FRAGMENTO n |'
EmptyLine == [kind |-> "blank", id |-> 0, pad |-> FALSE]

GeneralLines ==
    { EmptyLine, [kind |-> "blank", id |-> 0, pad |-> TRUE],
      [kind |-> "text", id |-> 1, pad |-> FALSE], [kind |-> "text", id |-> 1, pad |-> TRUE],
      [kind |-> "text", id |-> 2, pad |-> FALSE],
      [kind |-> "photo", id |-> 1, pad |-> FALSE], [kind |-> "photo", id |-> 2, pad |-> FALSE],
      [kind |-> "marker", id |-> 1, pad |-> FALSE] }

PriceLines ==
    { EmptyLine, [kind |-> "text", id |-> 1, pad |-> FALSE],
      [kind |-> "year", id |-> 1, pad |-> FALSE], [kind |-> "year", id |-> 2, pad |-> FALSE],
      [kind |-> "price", id |-> 1, pad |-> FALSE], [kind |-> "price", id |-> 2, pad |-> FALSE] }

TextSet ==
    UNION { [1..n -> GeneralLines] : n \in 1..MaxLines }
    \cup UNION { [1..n -> PriceLines] : n \in 1..MaxPriceLines }

\* the line as written, white space before it included
Trimmed_asWritten(line) == <<line.kind, line.id, line.pad>>

\* line.trim()
Trimmed(line) == <<line.kind, line.id>>

\* !line.trim()
IsBlankLine(line) == line.kind = "blank"

RECURSIVE DropLeadingBlank(_)
DropLeadingBlank(lines) ==
    IF lines # <<>> /\ IsBlankLine(Head(lines)) THEN DropLeadingBlank(Tail(lines)) ELSE lines

RECURSIVE DropTrailingBlank(_)
DropTrailingBlank(lines) ==
    IF lines # <<>> /\ IsBlankLine(lines[Len(lines)])
    THEN DropTrailingBlank(SubSeq(lines, 1, Len(lines) - 1))
    ELSE lines

\* lines.join('\n').trim(), as lines again: the blank lines at both ends go, and
\* so does the white space before the first line left; the empty string is one
\* empty line.
JoinTrim(lines) ==
    LET kept == DropTrailingBlank(DropLeadingBlank(lines))
    IN  IF kept = <<>> THEN <<EmptyLine>>
        ELSE <<[Head(kept) EXCEPT !.pad = FALSE]>> \o Tail(kept)

\* ---- the remover in use (duplicates.js)
\* The loop of removeDuplicates over the lines left, with processedLines and seen
RECURSIVE SimpleLoop(_, _, _)
SimpleLoop(lines, processedLines, seen) ==
    IF lines = <<>> THEN processedLines
    ELSE LET line == Head(lines)
             trimmed == Trimmed(line)
         IN  IF ~IsBlankLine(line) /\ trimmed \notin seen
             THEN SimpleLoop(Tail(lines), Append(processedLines, line), seen \cup {trimmed})
             ELSE IF IsBlankLine(line)
             THEN IF processedLines = <<>>
                     \/ IsBlankLine(processedLines[Len(processedLines)])
                  THEN SimpleLoop(Tail(lines), processedLines, seen)
                  ELSE SimpleLoop(Tail(lines), Append(processedLines, line), seen)
             ELSE SimpleLoop(Tail(lines), processedLines, seen)

\* removeDuplicates(content)
removeDuplicates(content) == JoinTrim(SimpleLoop(content, <<>>, {}))

\* ---- the section-based remover
\* removeDuplicateArrayItems(array): the first item of each trimmed content
RECURSIVE removeDuplicateArrayItems(_, _)
removeDuplicateArrayItems(array, seen) ==
    IF array = <<>> THEN <<>>
    ELSE IF Trimmed(Head(array)) \in seen
    THEN removeDuplicateArrayItems(Tail(array), seen)
    ELSE <<Head(array)>> \o
         removeDuplicateArrayItems(Tail(array), seen \cup {Trimmed(Head(array))})

\* removeAllDuplicateLines(content): blank lines are lines like the others
removeAllDuplicateLines(lines) == removeDuplicateArrayItems(lines, {})

IsPhoto(line) == line.kind = "photo"

\* the photo lines at the head of lines
RECURSIVE PhotoRun(_)
PhotoRun(lines) ==
    IF lines # <<>> /\ IsPhoto(Head(lines))
    THEN <<Head(lines)>> \o PhotoRun(Tail(lines))
    ELSE <<>>

\* removeDuplicatePhotos(content): each run of consecutive photo lines is
\* replaced by its unique lines
RECURSIVE removeDuplicatePhotos(_)
removeDuplicatePhotos(lines) ==
    IF lines = <<>> THEN <<>>
    ELSE IF IsPhoto(Head(lines))
    THEN LET photoLines == PhotoRun(lines)
         IN  removeDuplicateArrayItems(photoLines, {})
             \o removeDuplicatePhotos(SubSeq(lines, Len(photoLines) + 1, Len(lines)))
    ELSE <<Head(lines)>> \o removeDuplicatePhotos(Tail(lines))

\* lines[i] ? lines[i].trim() : ''  (an index past the end, or an empty line)
TrimmedAt(lines, i) ==
    IF i <= Len(lines) THEN Trimmed(lines[i]) ELSE Trimmed(EmptyLine)

IsYear(trimmed) == trimmed[1] = "year"
IsPrice(trimmed) == trimmed[1] = "price"

\* the test of removeDuplicateYearPrice at line i: a year and a price, followed
\* at once by the same year and a price
YearPriceRepeats(lines, i) ==
    /\ IsYear(TrimmedAt(lines, i))
    /\ IsPrice(TrimmedAt(lines, i + 1))
    /\ TrimmedAt(lines, i + 2) = TrimmedAt(lines, i)
    /\ IsPrice(TrimmedAt(lines, i + 3))

\* The loop of removeDuplicateYearPrice from index i: when the test holds at i,
\* lines[i] is pushed and skipNext drops the line after it.
RECURSIVE YearPriceLoop(_, _)
YearPriceLoop(lines, i) ==
    IF i > Len(lines) THEN <<>>
    ELSE IF YearPriceRepeats(lines, i)
    THEN <<lines[i]>> \o YearPriceLoop(lines, i + 2)
    ELSE <<lines[i]>> \o YearPriceLoop(lines, i + 1)

removeDuplicateYearPrice(lines) == YearPriceLoop(lines, 1)

\* processSection(section): the three passes, then trim
processSection(section) ==
    JoinTrim(removeAllDuplicateLines(removeDuplicateYearPrice(removeDuplicatePhotos(section))))

IsMarker(line) == line.kind = "marker"

\* The sections of splitIntoSections from the lines left, cur being the lines
\* of the section in progress: a section ends before each marker line, and the
\* line break before the marker leaves it one empty line at its end.
RECURSIVE SectionsFrom(_, _)
SectionsFrom(lines, cur) ==
    IF lines = <<>> THEN <<cur>>
    ELSE IF IsMarker(Head(lines))
    THEN (IF cur = <<>> THEN <<>> ELSE <<Append(cur, EmptyLine)>>)
         \o SectionsFrom(Tail(lines), <<Head(lines)>>)
    ELSE SectionsFrom(Tail(lines), Append(cur, Head(lines)))

\* sections.filter(section => section.trim().length > 0)
splitIntoSections(content) ==
    SelectSeq(SectionsFrom(content, <<>>),
              LAMBDA sec : \E i \in 1..Len(sec) : ~IsBlankLine(sec[i]))

\* processedSections.join('\n'), as lines
RECURSIVE JoinSections(_)
JoinSections(sections) ==
    IF sections = <<>> THEN <<>>
    ELSE Head(sections) \o JoinSections(Tail(sections))

\* removeDuplicates(htmlContent) of the section-based remover
enhancedRemoveDuplicates(content) ==
    LET sections == splitIntoSections(content)
        processedSections == [k \in 1..Len(sections) |-> processSection(sections[k])]
    IN  IF sections = <<>> THEN <<EmptyLine>> ELSE JoinSections(processedSections)

\* duplicateRemover.removeDuplicates(content), the remover in use
DdSimplified ==
    /\ dd_pc = "called"
    /\ dd_pc' = "simplified"
    /\ dd_out' = removeDuplicates(dd_text)
    /\ UNCHANGED dd_text
    /\ UNCHANGED besideDedup

\* removeDuplicates(htmlContent) of the section-based remover
DdEnhanced ==
    /\ dd_pc = "called"
    /\ dd_pc' = "enhanced"
    /\ dd_out' = enhancedRemoveDuplicates(dd_text)
    /\ UNCHANGED dd_text
    /\ UNCHANGED besideDedup

\* no remover is called
DdIdle ==
    /\ dd_pc = "idle"
    /\ dd_text = <<EmptyLine>>
    /\ dd_out = <<EmptyLine>>

\* a remover is about to be called on some text
DdInit ==
    /\ dd_pc = "called"
    /\ dd_text \in TextSet
    /\ dd_out = <<EmptyLine>>

\* ---- the output of the render stage in radial mode (main)
MaxOutFragments == 3

\* '<!-- FRAGMENTO i | SELETOR: ... | MÉTODO: ... | TERMO: ... -->'
FragmentHeader(i) == [kind |-> "marker", id |-> i, pad |-> FALSE]

\* '---'
RuleLine == [kind |-> "rule", id |-> 0, pad |-> FALSE]

\* '### Linked Content i: url'
LinkHeading(i, url) == [kind |-> "heading", id |-> <<i, url>>, pad |-> FALSE]

\* '<!-- Nenhum fragmento encontrado -->'
NoFragmentLine == [kind |-> "comment", id |-> 0, pad |-> FALSE]

\* convertToLlmReadyMarkdown(r.html) of a fragment, as lines
MarkdownSet ==
    { <<[kind |-> "text", id |-> 1, pad |-> FALSE]>>,
      <<[kind |-> "text", id |-> 2, pad |-> FALSE]>>,
      <<[kind |-> "text", id |-> 1, pad |-> FALSE], EmptyLine,
        [kind |-> "text", id |-> 3, pad |-> FALSE]>> }

\* the pages linked from a fragment (0: no link is rendered)
LinkSet == 0..2

\* A result of the radial search, as the render stage reads it: its markdown,
\* the page its first link leads to, and whether it holds every detail asked for
ResultSet == [md : MarkdownSet, link : LinkSet, detail : BOOLEAN]

\* what processLinksFromContent appends for the page url, as lines after the
\* line break that ends the base markdown
linkContent(url) ==
    <<EmptyLine, RuleLine, EmptyLine, LinkHeading(1, url), EmptyLine,
      [kind |-> "text", id |-> 10 + url, pad |-> FALSE]>>

\* fragmentContent of result i
fragmentContent(r, i) ==
    <<FragmentHeader(i)>> \o r.md
    \o (IF r.link = 0 THEN <<>> ELSE <<EmptyLine, EmptyLine>> \o linkContent(r.link))

\* fragmentOutputs.join('\n\n---\n\n') from result i on; first: nothing was
\* pushed yet.  A result that lacks a detail is skipped.
RECURSIVE JoinFragments(_, _, _)
JoinFragments(found, i, first) ==
    IF i > Len(found) THEN <<>>
    ELSE IF ~found[i].detail THEN JoinFragments(found, i + 1, first)
    ELSE (IF first THEN <<>> ELSE <<EmptyLine, RuleLine, EmptyLine>>)
         \o fragmentContent(found[i], i)
         \o JoinFragments(found, i + 1, FALSE)

\* finalContent of the radial branch, found being the results of the search
finalContent(found) ==
    IF found = <<>> THEN <<NoFragmentLine>>
    ELSE LET joined == JoinFragments(found, 1, TRUE)
         IN  IF joined = <<>> THEN <<EmptyLine>> ELSE joined

\* The radial branch of the render stage: the fragments are assembled and the
\* remover runs over the whole text before it is written.
DdRenderOutput ==
    /\ dd_pc = "render"
    /\ \E n \in 0..MaxOutFragments : \E found \in [1..n -> ResultSet] :
          /\ dd_text' = finalContent(found)
          /\ dd_out' = removeDuplicates(finalContent(found))
    /\ dd_pc' = "written"
    /\ UNCHANGED besideDedup

\* the render stage is about to assemble its output
DdRenderInit ==
    /\ dd_pc = "render"
    /\ dd_text = <<EmptyLine>>
    /\ dd_out = <<EmptyLine>>

\* ------------------------------------------- needBrowserFallback on its own
MaxCalls == 3

\* the pages given in these calls: those without 'placeholder'
SelPages == { h \in HtmlSet : ~h.placeholder }

\* the second argument: left out (opts = {}) or given
OptsSet == {"default", "given"}

\* SelCall returning true also when the call before it did: a verdict kept
\* between calls
SelCall_sticky ==
    /\ sel_pc = "called"
    /\ Len(sel_calls) < MaxCalls
    /\ \E html \in SelPages, opts \in OptsSet :
          sel_calls' = Append(sel_calls,
              [html |-> html, opts |-> opts,
               result |-> \/ needBrowserFallback(html)
                          \/ (sel_calls # <<>> /\ sel_calls[Len(sel_calls)].result)])
    /\ UNCHANGED sel_pc
    /\ UNCHANGED besideSelector

\* One call needBrowserFallback(html, opts): the value returned is computed
\* from html alone, with a regex created by the call, and nothing is written.
SelCall ==
    /\ sel_pc = "called"
    /\ Len(sel_calls) < MaxCalls
    /\ \E html \in SelPages, opts \in OptsSet :
          sel_calls' = Append(sel_calls,
              [html |-> html, opts |-> opts, result |-> needBrowserFallback(html)])
    /\ UNCHANGED sel_pc
    /\ UNCHANGED besideSelector

\* needBrowserFallback is not called on its own
SelIdle ==
    /\ sel_pc = "idle"
    /\ sel_calls = <<>>

SelInit ==
    /\ sel_pc = "called"
    /\ sel_calls = <<>>

\* ------------------------------------------------- the command line (main)
MaxArgs == 4

\* The tokens of a command line: a URL, the three flags main() knows, a word,
\* and the empty string
UrlToken == "http://site"
Flags == {"--out", "--term", "--detalhe"}
Tokens == {UrlToken, "word", ""} \cup Flags

ArgvSet == UNION { [1..n -> Tokens] : n \in 0..MaxArgs }

\* The loop over argv from its second token, i being the token read: a flag
\* followed by a non-empty token takes that token as its value; every other
\* token is ignored.
RECURSIVE ParseFrom(_, _, _)
ParseFrom(args, i, acc) ==
    IF i > Len(args) THEN acc
    ELSE IF args[i] \in Flags /\ i + 1 <= Len(args) /\ args[i + 1] # ""
    THEN ParseFrom(args, i + 2,
             IF args[i] = "--out" THEN [acc EXCEPT !.out = args[i + 1]]
             ELSE IF args[i] = "--term" THEN [acc EXCEPT !.term = args[i + 1]]
             ELSE [acc EXCEPT !.detalhe = TRUE])
    ELSE ParseFrom(args, i + 1, acc)

NoValue == "null"

\* url, out, term and detalheList as main() has them after the loop
ParseArgs(args) ==
    ParseFrom(args, 2, [url |-> args[1], out |-> NoValue, term |-> NoValue, detalhe |-> FALSE])

\* main() up to its first await: the usage checks and the parsing of argv
ArParse ==
    /\ ar_pc = "called"
    /\ IF Len(ar_argv) = 0
       THEN /\ ar_pc' = "exit2"
            /\ ar_parsed' = <<>>
       ELSE IF ParseArgs(ar_argv).term = NoValue
       THEN /\ ar_pc' = "exit2"
            /\ ar_parsed' = <<ParseArgs(ar_argv)>>
       ELSE /\ ar_pc' = "fetching"
            /\ ar_parsed' = <<ParseArgs(ar_argv)>>
    /\ UNCHANGED ar_argv
    /\ UNCHANGED besideArgs

\* main() is not running on a command line of its own
ArIdle ==
    /\ ar_pc = "idle"
    /\ ar_argv = <<>>
    /\ ar_parsed = <<>>

ArInit ==
    /\ ar_pc = "called"
    /\ ar_argv \in ArgvSet
    /\ ar_parsed = <<>>

\* ------------------------------- the pending-request counter (polyfills)
MaxXhr == 2
MaxSends == 2
MaxFetches == 2

XhrIds == 1..MaxXhr

\* window.__incPending()
incPending(p) == p + 1

\* window.__decPending(): Math.max(0, (p || 1) - 1)
decPending(p) == Max(0, (IF p = 0 THEN 1 ELSE p) - 1)

\* __decPending() called k times
RECURSIVE DecTimes(_, _)
DecTimes(p, k) == IF k = 0 THEN p ELSE DecTimes(decPending(p), k - 1)

\* window.fetch(input, init) is called: the counter goes up and the request is
\* in flight until the awaits of the wrapper settle
PrFetchStart ==
    /\ pr_pc = "open"
    /\ pr_fetches < MaxFetches
    /\ pr_fetches' = pr_fetches + 1
    /\ pr_pending' = incPending(pr_pending)
    /\ UNCHANGED <<pr_pc, pr_xhr>>
    /\ UNCHANGED besidePending

\* the fetch of the wrapper resolves or rejects: finally { __decPending() }
PrFetchEnd ==
    /\ pr_pc = "open"
    /\ pr_fetches > 0
    /\ pr_fetches' = pr_fetches - 1
    /\ pr_pending' = decPending(pr_pending)
    /\ UNCHANGED <<pr_pc, pr_xhr>>
    /\ UNCHANGED besidePending

\* xhr.send() on an object with no request in flight: the counter goes up and
\* onreadystatechange is replaced by a wrapper around the handler found there,
\* which may be the wrapper of an earlier send.
PrXhrSend ==
    /\ pr_pc = "open"
    /\ \E x \in XhrIds :
          /\ ~pr_xhr[x].inflight
          /\ pr_xhr[x].sends < MaxSends
          /\ pr_xhr' = [pr_xhr EXCEPT ![x] = [inflight |-> TRUE, sends |-> @.sends + 1,
                                                wrappers |-> @.wrappers + 1]]
    /\ pr_pending' = incPending(pr_pending)
    /\ UNCHANGED <<pr_pc, pr_fetches>>
    /\ UNCHANGED besidePending

\* the page assigns xhr.onreadystatechange: the handler found there, wrappers
\* included, is gone
PrXhrAssign ==
    /\ pr_pc = "open"
    /\ \E x \in XhrIds :
          /\ pr_xhr[x].wrappers > 0
          /\ pr_xhr' = [pr_xhr EXCEPT ![x].wrappers = 0]
    /\ UNCHANGED <<pr_pc, pr_fetches, pr_pending>>
    /\ UNCHANGED besidePending

\* the request of an XHR completes or fails: readyState is 4 and
\* onreadystatechange runs; each wrapper in it calls __decPending() and then
\* the handler it wraps.
PrXhrDone ==
    /\ pr_pc = "open"
    /\ \E x \in XhrIds :
          /\ pr_xhr[x].inflight
          /\ pr_xhr' = [pr_xhr EXCEPT ![x].inflight = FALSE]
          /\ pr_pending' = DecTimes(pr_pending, pr_xhr[x].wrappers)
    /\ UNCHANGED <<pr_pc, pr_fetches>>
    /\ UNCHANGED besidePending

\* no render session is observed
PrIdle ==
    /\ pr_pc = "idle"
    /\ pr_pending = 0
    /\ pr_fetches = 0
    /\ pr_xhr = [x \in XhrIds |-> [inflight |-> FALSE, sends |-> 0, wrappers |-> 0]]

\* applyJsdomPolyfills has run on a new window: window.__pendingRequests = 0
PrInit ==
    /\ pr_pc = "open"
    /\ pr_pending = 0
    /\ pr_fetches = 0
    /\ pr_xhr = [x \in XhrIds |-> [inflight |-> FALSE, sends |-> 0, wrappers |-> 0]]

\* ------------------------------------ interaction simulation (main, links)
MaxIaTime == 5

\* the delay of the click timer, 300 ms, in steps of 100 ms
ClickDelay == 3

NoTimer == -1

\* the load listener without its try: the error leaves the listener
IaScrollThrew_uncaught(log, now) == Append(log, [ev |-> "failed", at |-> now])

\* what the load listener does when scrollTo or dispatchEvent throws: the catch
\* swallows it, and the click timer is set all the same
IaScrollThrew(log, now) ==
    Append(log, [ev |-> "scroll_threw", at |-> now])

\* The load event of the window fires: the listener scrolls and dispatches a
\* synthetic scroll event (threw: one of the two threw), then sets the click
\* timer.
IaLoad ==
    /\ ia_pc = "listening"
    /\ \E threw \in BOOLEAN :
          LET loaded == Append(ia_log, [ev |-> "load", at |-> ia_now])
              after == IF threw THEN IaScrollThrew(loaded, ia_now)
                       ELSE Append(loaded, [ev |-> "scroll", at |-> ia_now])
          IN  /\ ia_log' = after
              /\ IF after[Len(after)].ev = "failed"
                 THEN ia_pc' = "failed" /\ ia_timer' = NoTimer
                 ELSE ia_pc' = "loaded" /\ ia_timer' = ia_now + ClickDelay
    /\ UNCHANGED ia_now
    /\ UNCHANGED besideInteraction

\* The click timer fires, not before its delay has elapsed: querySelector
\* looks for the first load-more element (found) and clicks it (threw: the
\* click, or the lookup, threw; the catch swallows it).
IaClickTimer ==
    /\ ia_pc = "loaded"
    /\ ia_timer # NoTimer
    /\ ia_timer <= ia_now
    /\ \E found \in BOOLEAN, threw \in BOOLEAN :
          ia_log' = IF ~found THEN Append(ia_log, [ev |-> "no_button", at |-> ia_now])
                    ELSE IF threw THEN Append(ia_log, [ev |-> "click_threw", at |-> ia_now])
                    ELSE Append(ia_log, [ev |-> "click", at |-> ia_now])
    /\ ia_timer' = NoTimer
    /\ UNCHANGED <<ia_pc, ia_now>>
    /\ UNCHANGED besideInteraction

\* time passes
IaTick ==
    /\ ia_pc \in {"listening", "loaded"}
    /\ ia_now < MaxIaTime
    /\ ia_now' = ia_now + 1
    /\ UNCHANGED <<ia_pc, ia_log, ia_timer>>
    /\ UNCHANGED besideInteraction

\* dom.window.close(): the window is closed with its listeners and timers
IaClose ==
    /\ ia_pc \in {"listening", "loaded"}
    /\ ia_pc' = "closed"
    /\ ia_timer' = NoTimer
    /\ UNCHANGED <<ia_log, ia_now>>
    /\ UNCHANGED besideInteraction

\* no window listens for its load event
IaIdle ==
    /\ ia_pc = "idle"
    /\ ia_log = <<>>
    /\ ia_now = 0
    /\ ia_timer = NoTimer

\* the JSDOM was constructed and the load listener added
IaInit ==
    /\ ia_pc = "listening"
    /\ ia_log = <<>>
    /\ ia_now = 0
    /\ ia_timer = NoTimer

\* ------------------------- the linked content appended to a fragment (main)
MaxMdLen == 3
MaxLinkLen == 2

\* The pieces of a markdown text, each counted as one character: plain text,
\* the path of a link, the origin that stands before the path of an absolute
\* link, and a character of a Linked Content section
MdPieces == {"text", "path", "origin"}

\* the markdown of a fragment: no origin without the path it belongs to
MdSet ==
    { md \in UNION { [1..n -> MdPieces] : n \in 0..MaxMdLen } :
        \A i \in 1..Len(md) : md[i] = "origin" => (i < Len(md) /\ md[i + 1] = "path") }

\* resolveMarkdownLinks(markdown, baseUrl): every relative link gets the
\* origin of the base URL before its path
RECURSIVE resolveMarkdownLinks(_, _)
resolveMarkdownLinks(md, afterOrigin) ==
    IF md = <<>> THEN <<>>
    ELSE IF Head(md) = "path" /\ ~afterOrigin
    THEN <<"origin", "path">> \o resolveMarkdownLinks(Tail(md), FALSE)
    ELSE <<Head(md)>> \o resolveMarkdownLinks(Tail(md), Head(md) = "origin")

\* what processLinksFromContent returns: baseMarkdown + linkContent
fragmentWithLinks(md, linkText) == resolveMarkdownLinks(md, FALSE) \o linkText

\* fragmentWithLinks.substring(baseContent.length), baseContent being the
\* markdown of the fragment as main() converts it, unresolved
linkedContent(md, linkText) ==
    LET fw == fragmentWithLinks(md, linkText)
    IN  IF Len(fw) > Len(md) THEN SubSeq(fw, Len(md) + 1, Len(fw)) ELSE <<>>

\* The link step of the fragment loop: processLinksFromContent is awaited and
\* what stands after the length of the base markdown is appended.
ApAppend ==
    /\ ap_pc = "called"
    /\ ap_pc' = "appended"
    /\ ap_appended' = linkedContent(ap_md, ap_link)
    /\ UNCHANGED <<ap_md, ap_link>>
    /\ UNCHANGED besideAppend

\* no fragment is being extended
ApIdle ==
    /\ ap_pc = "idle"
    /\ ap_md = <<>>
    /\ ap_link = <<>>
    /\ ap_appended = <<>>

\* a fragment with its markdown, and the Linked Content sections link
\* expansion will produce for it (none: the fragment has no candidate link)
ApInit ==
    /\ ap_pc = "called"
    /\ ap_md \in MdSet
    /\ ap_link \in UNION { [1..n -> {"linked"}] : n \in 0..MaxLinkLen }
    /\ ap_appended = <<>>

\* ---------------------------------------------------------- specifications
MainInit ==
    /\ pc = "start"
    /\ argv \in [url : BOOLEAN, term : BOOLEAN, out : BOOLEAN]
    /\ tried = <<>>
    /\ simpleRes = "none"
    /\ renderRes = "none"
    /\ fallbackRes = "none"
    /\ output = "none"
    /\ writes = 0
    /\ exitCode = -1
    /\ stderr = <<>>
    /\ results = 0
    /\ fragIdx = 0
    /\ waitEnds = <<>>
    /\ extracted = FALSE

SessInit ==
    /\ openSessions = {}
    /\ sessCount = 0
    /\ plainOpen = 0

LpFresh ==
    /\ lp_n = 0
    /\ lp_i = 0
    /\ lp_sections = <<>>
    /\ lp_cur = 0
    /\ lp_leaked = 0
    /\ lp_found = <<>>
    /\ lp_started = <<>>
    /\ lp_total = 0
    /\ lp_log = <<>>

\* processLinksFromContent is not running
LpIdle ==
    /\ LpFresh
    /\ lp_pc = "idle"
    /\ lp_max = maxLinks

\* processLinksFromContent is about to be called with renderLinks set and
\* some value of maxLinks (0: as when the option is absent)
LpInit ==
    /\ LpFresh
    /\ lp_pc = "called"
    /\ lp_max \in -1..MaxLinksBound

\* main() is not running
MainIdle ==
    /\ pc = "idle"
    /\ argv = [url |-> FALSE, term |-> FALSE, out |-> FALSE]
    /\ tried = <<>>
    /\ simpleRes = "none"
    /\ renderRes = "none"
    /\ fallbackRes = "none"
    /\ output = "none"
    /\ writes = 0
    /\ exitCode = -1
    /\ stderr = <<>>
    /\ results = 0
    /\ fragIdx = 0
    /\ waitEnds = <<>>
    /\ extracted = FALSE

Init == MainInit /\ SessInit /\ LpIdle /\ RfIdle /\ QIdle /\ NetIdle /\ ExIdle /\ RsIdle /\ DdIdle /\ SelIdle /\ ArIdle /\ PrIdle /\ IaIdle /\ ApIdle

Next ==
    \/ MainStart
    \/ SimpleDone
    \/ RenderFetched
    \/ RenderQuiesced
    \/ RenderNetIdle
    \/ RenderLinksReturned
    \/ FallbackDone
    \/ LinkFetched
    \/ LinkQuiesced
    \/ LinkNetIdle

Spec == Init /\ [][Next]_vars

RetryInit == MainIdle /\ SessInit /\ LpIdle /\ RfInit /\ QIdle /\ NetIdle /\ ExIdle /\ RsIdle /\ DdIdle /\ SelIdle /\ ArIdle /\ PrIdle /\ IaIdle /\ ApIdle

RetryNext ==
    \/ RfCall
    \/ RfSettle
    \/ RfWake

SpecRetry == RetryInit /\ [][RetryNext]_vars

QuiesceInit == MainIdle /\ SessInit /\ LpIdle /\ RfIdle /\ QInit /\ NetIdle /\ ExIdle /\ RsIdle /\ DdIdle /\ SelIdle /\ ArIdle /\ PrIdle /\ IaIdle /\ ApIdle

QuiesceNext ==
    \/ QCall
    \/ QLoad
    \/ QMutate
    \/ QCheck
    \/ QTick

SpecQuiesce == QuiesceInit /\ [][QuiesceNext]_vars

LinksInit == MainIdle /\ SessInit /\ LpInit /\ RfIdle /\ QIdle /\ NetIdle /\ ExIdle /\ RsIdle /\ DdIdle /\ SelIdle /\ ArIdle /\ PrIdle /\ IaIdle /\ ApIdle

LinksNext ==
    \/ LpCall
    \/ LinkFetched
    \/ LinkQuiesced
    \/ LinkNetIdle

SpecLinks == LinksInit /\ [][LinksNext]_vars

NetIdleInit == MainIdle /\ SessInit /\ LpIdle /\ RfIdle /\ QIdle /\ NetInit /\ ExIdle /\ RsIdle /\ DdIdle /\ SelIdle /\ ArIdle /\ PrIdle /\ IaIdle /\ ApIdle

NetIdleNext ==
    \/ NetEnter
    \/ NetWake
    \/ NetRequestStart
    \/ NetRequestEnd
    \/ NetTick

SpecNetIdle == NetIdleInit /\ [][NetIdleNext]_vars

ExtractInit == MainIdle /\ SessInit /\ LpIdle /\ RfIdle /\ QIdle /\ NetIdle /\ ExInit /\ RsIdle /\ DdIdle /\ SelIdle /\ ArIdle /\ PrIdle /\ IaIdle /\ ApIdle

ExtractNext == ExCall

SpecExtract == ExtractInit /\ [][ExtractNext]_vars

RadialInit ==
    MainIdle /\ SessInit /\ LpIdle /\ RfIdle /\ QIdle /\ NetIdle /\ ExIdle /\ RsInit /\ DdIdle /\ SelIdle /\ ArIdle /\ PrIdle /\ IaIdle /\ ApIdle

RadialNext == RsCall

SpecRadial == RadialInit /\ [][RadialNext]_vars

DedupInit ==
    MainIdle /\ SessInit /\ LpIdle /\ RfIdle /\ QIdle /\ NetIdle /\ ExIdle /\ RsIdle /\ DdInit /\ SelIdle /\ ArIdle /\ PrIdle /\ IaIdle /\ ApIdle

DedupNext ==
    \/ DdSimplified
    \/ DdEnhanced

SpecDedup == DedupInit /\ [][DedupNext]_vars

OutputInit ==
    MainIdle /\ SessInit /\ LpIdle /\ RfIdle /\ QIdle /\ NetIdle /\ ExIdle /\ RsIdle /\ DdRenderInit /\ SelIdle /\ ArIdle /\ PrIdle /\ IaIdle /\ ApIdle

OutputNext == DdRenderOutput

SpecOutput == OutputInit /\ [][OutputNext]_vars

SelectorInit ==
    MainIdle /\ SessInit /\ LpIdle /\ RfIdle /\ QIdle /\ NetIdle /\ ExIdle /\ RsIdle /\ DdIdle /\ SelInit /\ ArIdle /\ PrIdle /\ IaIdle /\ ApIdle

SelectorNext == SelCall

SpecSelector == SelectorInit /\ [][SelectorNext]_vars

ArgsInit ==
    MainIdle /\ SessInit /\ LpIdle /\ RfIdle /\ QIdle /\ NetIdle /\ ExIdle /\ RsIdle /\ DdIdle /\ SelIdle /\ ArInit /\ PrIdle /\ IaIdle /\ ApIdle

ArgsNext == ArParse

SpecArgs == ArgsInit /\ [][ArgsNext]_vars

PendingInit ==
    MainIdle /\ SessInit /\ LpIdle /\ RfIdle /\ QIdle /\ NetIdle /\ ExIdle /\ RsIdle /\ DdIdle /\ SelIdle /\ ArIdle /\ PrInit /\ IaIdle /\ ApIdle

PendingNext ==
    \/ PrFetchStart
    \/ PrFetchEnd
    \/ PrXhrSend
    \/ PrXhrAssign
    \/ PrXhrDone

SpecPending == PendingInit /\ [][PendingNext]_vars

InteractionInit ==
    MainIdle /\ SessInit /\ LpIdle /\ RfIdle /\ QIdle /\ NetIdle /\ ExIdle /\ RsIdle /\ DdIdle /\ SelIdle /\ ArIdle /\ PrIdle /\ IaInit /\ ApIdle

InteractionNext ==
    \/ IaLoad
    \/ IaClickTimer
    \/ IaTick
    \/ IaClose

SpecInteraction == InteractionInit /\ [][InteractionNext]_vars

AppendInit ==
    MainIdle /\ SessInit /\ LpIdle /\ RfIdle /\ QIdle /\ NetIdle /\ ExIdle /\ RsIdle /\ DdIdle /\ SelIdle /\ ArIdle /\ PrIdle /\ IaIdle /\ ApInit

AppendNext == ApAppend

SpecAppend == AppendInit /\ [][AppendNext]_vars

\* processLinksFromContent when every await of an acquisition settles: the
\* retryFetch of a link, its waitForQuiescence and its network-idle loop each
\* end, and the call itself is made.
SpecLinksFair ==
    /\ SpecLinks
    /\ WF_vars(LpCall)
    /\ WF_vars(LinkFetched)
    /\ WF_vars(LinkQuiesced)
    /\ WF_vars(LinkNetIdle)

\* Both waits with timers that fire when they are due: one behaviour runs
\* waitForQuiescence or the network-idle loop.
WaitsPromptInit ==
    /\ MainIdle /\ SessInit /\ LpIdle /\ RfIdle
    /\ ExIdle /\ RsIdle /\ DdIdle /\ SelIdle /\ ArIdle /\ PrIdle /\ IaIdle /\ ApIdle
    /\ \/ QInit /\ NetIdle
       \/ QIdle /\ NetInit

WaitsPromptNext ==
    \/ QCall
    \/ QLoad
    \/ QMutate
    \/ QCheck
    \/ QTickPrompt
    \/ NetEnter
    \/ NetWake
    \/ NetRequestStart
    \/ NetRequestEnd
    \/ NetTickPrompt

SpecWaitsPrompt == WaitsPromptInit /\ [][WaitsPromptNext]_vars

\* ------------------------------------------------------------------ claims
StageRank(stage) ==
    CASE stage = "simple" -> 1
      [] stage = "render" -> 2
      [] stage = "fallback" -> 3

RenderFailures == {"fetch_failed", "dom_failed", "extract_failed", "write_failed"}

\* C1: the stages are attempted only in the order simple fetch, rendered fetch,
\* fallback fetch, each at most once, and the stage that produced the output is
\* the last stage attempted: no stage is attempted after output was produced.
C1_StageOrder ==
    /\ \A i, j \in 1..Len(tried) : i < j => StageRank(tried[i]) < StageRank(tried[j])
    /\ output # "none" => (Len(tried) > 0 /\ tried[Len(tried)] = output)

\* a run that went through all three stages and wrote the fallback result
C1_Witness == output = "fallback" /\ tried = <<"simple", "render", "fallback">>

\* C2 (as claimed): with valid arguments the run is fatal only when the simple
\* fetch, the render stage and the fallback fetch have all failed; when one of
\* them succeeded, the run has produced output and exits with code 0.  A stage
\* whose write threw is counted as failed here.
C2_FatalOnlyIfAllFailed ==
    (argv.url /\ argv.term /\ pc = "exited") =>
        /\ exitCode = 1 =>
              /\ simpleRes \in {"failed", "write_failed"}
              /\ renderRes \in RenderFailures
              /\ fallbackRes \in {"fetch_failed", "write_failed"}
        /\ (simpleRes \in {"escalated", "written"} \/ renderRes = "written"
              \/ fallbackRes = "written") => (exitCode = 0 /\ output # "none")

\* C3: once the render stage has failed, whatever the point of failure, the
\* fallback fetch is the stage in progress or the last one attempted, the run
\* has not been aborted by the failure, and it ends only with the fallback settled.
C3_RenderFailureFallsBack ==
    renderRes \in RenderFailures =>
        /\ tried[Len(tried)] = "fallback"
        /\ pc \in {"fallback_fetch", "exited"}
        /\ pc = "exited" => fallbackRes # "none"

\* the write of the render stage threw and the fallback wrote the output
C3_Witness == renderRes = "write_failed" /\ output = "fallback" /\ exitCode = 0

\* C4 (as claimed): when the render stage is over, its session is closed, and
\* when a link-expansion call is over, the session it created is closed.
C4_SessionsReleased ==
    /\ pc \in {"fallback_fetch", "exited"} => TopSession \notin openSessions
    /\ lp_leaked = 0
    /\ lp_pc \in {"idle", "returned", "link_fetch"} => openSessions \subseteq {TopSession}

\* C5 (as claimed): at most one render session is open at any moment.
C5_OneSessionAtATime == Cardinality(openSessions) <= 1

\* a response status the fetcher has to accept
InAcceptedRange(status) == status >= 200 /\ status < 500

\* C6: one call of retryFetch makes at most maxRetries HTTP attempts (none at
\* all when maxRetries is zero or negative).
C6_AtMostMaxAttempts == rf_issued = 0 \/ rf_issued <= rf_max

\* every attempt was used
C6_Witness == rf_pc = "threw" /\ rf_issued = defaultMaxRetries /\ rf_max = defaultMaxRetries

\* C7: a response with status in [200,500) ends the call at once: it is the last
\* attempt, it is returned without error, and the attempts made are exactly the
\* failures before it plus itself.  A failed attempt that is not the last one
\* allowed is followed by a retry.
C7_AcceptsFirstInRange ==
    /\ \A i \in 1..Len(rf_log) :
          InAcceptedRange(rf_log[i]) =>
              /\ i = Len(rf_log)
              /\ rf_pc = "returned"
              /\ rf_result = rf_log[i]
              /\ rf_issued = i
    /\ rf_pc = "returned" => (Len(rf_log) > 0 /\ InAcceptedRange(rf_log[Len(rf_log)]))
    /\ (Len(rf_log) > 0 /\ ~InAcceptedRange(rf_log[Len(rf_log)]) /\ Len(rf_log) < rf_max)
          => rf_pc \in {"sleeping", "fetching"}

\* 503, 503, 200: success with exactly 3 attempts
C7_Witness ==
    rf_log = <<503, 503, 200>> /\ rf_pc = "returned" /\ rf_result = 200 /\ rf_issued = 3

\* a 4xx response passed through to the caller
C7_Witness4xx == rf_log = <<TransportError, 404>> /\ rf_pc = "returned" /\ rf_result = 404

RECURSIVE SumSeq(_)
SumSeq(seq) == IF seq = <<>> THEN 0 ELSE seq[1] + SumSeq(Tail(seq))

\* C8: the i-th backoff wait (after failed attempt i-1) lasts 2^(i-1) seconds;
\* one wait precedes each attempt but the first, so when attempt k (0-indexed)
\* is in flight the waits add up to 2^0+...+2^(k-1) = 2^k - 1 seconds.
C8_ExponentialBackoff ==
    /\ \A i \in 1..Len(rf_slept) : rf_slept[i] = (2 ^ (i - 1)) * 1000
    /\ rf_pc = "fetching" =>
          /\ Len(rf_slept) = rf_issued - 1
          /\ SumSeq(rf_slept) = ((2 ^ (rf_issued - 1)) - 1) * 1000
    /\ rf_pc = "sleeping" => Len(rf_slept) = Len(rf_log)

\* the fourth attempt is in flight after waits of 1, 2 and 4 seconds
C8_Witness == rf_pc = "fetching" /\ rf_slept = <<1000, 2000, 4000>>

\* C9: an error is surfaced only when all maxRetries attempts were made and
\* failed; it is the failure of the last attempt, and it is surfaced right after
\* that attempt, with no backoff wait after it and no further attempt.
C9_LastFailureSurfaced ==
    /\ rf_pc = "threw" =>
          /\ rf_issued = rf_max
          /\ Len(rf_log) = rf_max
          /\ \A i \in 1..Len(rf_log) : ~InAcceptedRange(rf_log[i])
          /\ rf_result = rf_log[rf_max]
          /\ Len(rf_slept) = rf_max - 1
    /\ (rf_max >= 1 /\ Len(rf_log) = rf_max /\ ~InAcceptedRange(rf_log[rf_max]))
          => rf_pc = "threw"

\* three attempts failed, the last by a transport failure, which is surfaced
C9_Witness ==
    /\ rf_pc = "threw"
    /\ rf_max = 3
    /\ rf_log = <<503, TransportError, TransportError>>
    /\ rf_result = TransportError

\* C10: the promise resolves only at a moment when the ceiling has elapsed since
\* the wait started, or the whole quiet window has passed since the wait started
\* and since the last mutation the observer was told of before the resolution.
C10_ResolvesOnlyWhenQuietOrCeiling ==
    q_resolvedAt # -1 =>
        \/ q_resolvedAt - q_start >= q_timeout
        \/ /\ q_resolvedAt - q_start >= q_quiet
           /\ q_lastMut = -1 \/ q_resolvedAt - q_lastMut >= q_quiet

\* a mutation restarted the quiet window and the wait ended by quiescence,
\* before the ceiling
C10_Witness ==
    /\ q_resolvedAt # -1
    /\ q_lastMut > q_start
    /\ q_resolvedAt - q_start < q_timeout
    /\ q_resolvedAt - q_lastMut >= q_quiet

\* C11 (as claimed): the network-idle loop is left before its ceiling only when
\* no request was in flight at any moment of the idle window that ends there;
\* otherwise it is left when the ceiling is reached.
C11_IdleWindowContinuous ==
    /\ n_endedBy = "idle" =>
          /\ n_endedAt - n_startNet >= n_idle
          /\ n_lastBusy = -1 \/ n_endedAt - n_lastBusy >= n_idle
    /\ n_endedBy = "ceiling" => n_endedAt - n_startNet >= n_ceiling

\* C12 (as claimed): with timers firing when due, waitForQuiescence resolves no
\* later than timeout plus one polling interval after it started, and the
\* network-idle loop ends no later than its ceiling plus one polling interval.
C12_WaitsEndByCeiling ==
    /\ q_resolvedAt # -1 => q_resolvedAt - q_start <= q_timeout + PollTicks
    /\ q_pc = "waiting" => q_now - q_start <= q_timeout + PollTicks
    /\ n_endedAt # -1 => n_endedAt - n_startNet <= n_ceiling + NetPollTicks
    /\ n_pc = "sleeping" => n_now - n_startNet <= n_ceiling + NetPollTicks

\* C13: a wait of stage 2 that ended at its ceiling raises no error and starts
\* no fallback: after the quiescence wait the stage is at the network-idle wait,
\* and after the network-idle wait it has gone on to extraction.
C13_WaitsBestEffort ==
    /\ Len(waitEnds) = 1 =>
          /\ pc = "render_netidle"
          /\ renderRes = "none"
          /\ stderr = <<>>
          /\ tried[Len(tried)] = "render"
    /\ Len(waitEnds) = 2 => extracted

C13_Witness ==
    /\ waitEnds = <<"ceiling", "ceiling">>
    /\ extracted
    /\ output = "render"
    /\ exitCode = 0
    /\ tried[Len(tried)] = "render"

\* the number of "Linked Content" sections the claims expect for the call
ExpectedSections == Min(Len(lp_found), lp_max)

\* C14 (as claimed): one call of processLinksFromContent starts no more than
\* maxLinks expansion fetches, for any maxLinks and any number of candidates.
C14_AtMostMaxLinksFetches ==
    lp_pc # "called" => Len(lp_started) <= lp_max

\* C15 (as claimed): when the call returns, the output holds exactly
\* min(c, maxLinks) sections, numbered 1.., for the first candidates in
\* discovery order.
C15_ExactlyMinSections ==
    lp_pc = "returned" =>
        /\ Len(lp_sections) = ExpectedSections
        /\ \A k \in 1..Len(lp_sections) :
              /\ lp_sections[k].num = k
              /\ lp_sections[k].url = lp_found[k]

\* C16: links are started one at a time and in discovery order: link k+1 is
\* started only when link k has its section (it completed or failed), and only
\* the link in progress can have a render session open.
C16_Sequential ==
    lp_pc \notin {"idle", "called"} =>
        /\ Len(lp_started) <= Len(lp_sections) + 1
        /\ \A k \in 1..Len(lp_started) : lp_started[k] = lp_found[k]
        /\ lp_pc \in {"link_fetch", "link_quiesce", "link_netidle"} =>
              /\ Len(lp_started) = Len(lp_sections) + 1
              /\ lp_started[Len(lp_started)] = processedLinks[lp_i]
        /\ openSessions \subseteq {lp_cur}
        /\ lp_pc \in {"link_fetch", "returned"} => openSessions = {}

C16_Witness ==
    /\ lp_pc = "link_quiesce"
    /\ lp_i = 3
    /\ lp_started = <<1, 2, 3>>
    /\ Len(lp_sections) = 2
    /\ lp_log[2].session # 0
    /\ openSessions = {lp_cur}

\* C17: a failing link never aborts the batch: when the call returns every
\* selected link has its section, a link whose fetch or render failed has the
\* placeholder, and a link that gave its markdown has it in the output.
C17_FailureDoesNotAbort ==
    /\ lp_pc = "returned" =>
          /\ Len(lp_sections) = lp_n
          /\ Len(lp_log) = lp_n
          /\ \A k \in 1..lp_n :
                /\ lp_sections[k].url = processedLinks[k]
                /\ ~lp_log[k].fetched => lp_sections[k].kind = "failed"
                /\ lp_log[k].attempted /\ lp_log[k].session = 0
                      => lp_sections[k].kind = "failed"
                /\ lp_log[k].fetched /\ ~lp_log[k].attempted
                      => lp_sections[k].kind = "ok"
    /\ lp_pc \in {"link_fetch", "link_quiesce", "link_netidle"} =>
          /\ Len(lp_sections) = lp_i - 1
          /\ lp_i <= lp_n

C17_Witness ==
    /\ lp_pc = "returned"
    /\ lp_n = 3
    /\ ~lp_log[1].fetched
    /\ lp_sections[1].kind = "failed"
    /\ lp_sections[2].kind = "ok"
    /\ lp_sections[3].kind = "failed"
    /\ lp_log[3].session # 0

\* C19: a link gets a script-executing session only when its plain fetch
\* succeeded and the quick extraction failed or gave at most 100 characters, and
\* then the render is attempted; with more than 100 characters the quick
\* markdown is the link's result and no session is made.
C19_RenderOnlyWhenQuickTooShort ==
    \A k \in 1..Len(lp_log) :
        /\ lp_log[k].attempted <=>
              /\ lp_log[k].fetched
              /\ lp_log[k].qlen = QuickThrew \/ lp_log[k].qlen <= 100
        /\ lp_log[k].session # 0 => lp_log[k].attempted
        /\ lp_log[k].fetched /\ lp_log[k].qlen > 100 =>
              /\ lp_log[k].session = 0
              /\ k <= Len(lp_sections) => lp_sections[k].kind = "ok"

C19_Witness ==
    /\ lp_pc = "returned"
    /\ Len(lp_log) = 3
    /\ lp_log[1].qlen = 100 /\ lp_log[1].session # 0
    /\ lp_log[2].qlen = 101 /\ lp_log[2].session = 0
    /\ lp_log[3].qlen = QuickThrew /\ lp_log[3].fetched /\ lp_log[3].session # 0

\* C18 (as claimed): no target returned by extractFilteredLinks is a
\* javascript, mailto or fragment-only link or an image link, whether it came
\* from an <a href> or from a [text](url) pattern, and every target is absolute.
C18_NoExcludedTarget ==
    ex_pc = "returned" =>
        \A i \in 1..Len(ex_out) :
            /\ ex_out[i].scheme \notin {"javascript", "mailto"}
            /\ ex_out[i].fragmentOf = "none"
            /\ ex_out[i].image = "none"
            /\ ex_out[i].absolute

\* C20 (as claimed): no fragment returned by performRadialSearch has the body
\* or the html element as its boundary, whatever the tree, the matching text
\* node and radiusLevels.
C20_NeverBodyOrHtml ==
    rs_pc = "returned" =>
        \A k \in 1..Len(rs_results) : rs_results[k].tag \notin {"BODY", "HTML"}

\* the ancestor k levels above element el (el itself for k = 0)
RECURSIVE AncestorAt(_, _, _)
AncestorAt(doc, el, k) ==
    IF k = 0 \/ el = NoNode THEN el ELSE AncestorAt(doc, doc[el].parent, k - 1)

\* the number of levels between element el and body (0 for body itself)
DepthBelowBody(doc, el) == Len(PathToRoot(doc, el)) - 2

\* C21 (as claimed): each fragment is the ancestor reached from the immediate
\* parent of its match by min(radiusLevels, levels available below body)
\* steps; so a match whose parent lies more than radiusLevels levels below body
\* gives the ancestor exactly radiusLevels levels above that parent, for every
\* requested radiusLevels >= 0.
C21_ExactRadius ==
    rs_pc = "returned" =>
        \A k \in 1..Len(rs_results) :
            LET el == rs_doc[rs_results[k].from].parent
                d == DepthBelowBody(rs_doc, el)
            IN  d >= 1 =>
                  rs_results[k].best = AncestorAt(rs_doc, el, Min(rs_radius, d - 1))

\* a text node outside every script and style subtree
Readable(doc, n) ==
    /\ doc[n].kind = "text"
    /\ \A i \in 1..Len(PathToRoot(doc, n)) :
          doc[PathToRoot(doc, n)[i]].tag \notin {"SCRIPT", "STYLE"}

\* the readable text nodes that contain the term
Matches(doc) == { n \in 1..Len(doc) : Readable(doc, n) /\ doc[n].match }

\* C22 (as claimed): when some readable text node contains the term, some
\* returned fragment still holds a text node containing the term in its html,
\* after its svg elements were emptied.
C22_SomeFragmentContainsTerm ==
    rs_pc = "returned" /\ Matches(rs_doc) # {} =>
        \E k \in 1..Len(rs_results) :
            \E n \in rs_results[k].text : rs_doc[n].match

C24_Idempotent ==
    /\ dd_pc = "simplified" => removeDuplicates(dd_out) = dd_out
    /\ dd_pc = "enhanced" => enhancedRemoveDuplicates(dd_out) = dd_out

\* a remover has changed a text that begins with white space and holds a
\* fragment marker and a line of white space only
C24_Witness ==
    /\ dd_pc = "enhanced"
    /\ dd_text[1].pad
    /\ \E i \in 1..Len(dd_text) : IsMarker(dd_text[i])
    /\ \E i \in 1..Len(dd_text) : IsBlankLine(dd_text[i]) /\ dd_text[i].pad
    /\ dd_out # dd_text

\* the lines of a text by section: a section begins at each marker line
RECURSIVE SectionsOf(_, _)
SectionsOf(lines, cur) ==
    IF lines = <<>> THEN <<cur>>
    ELSE IF IsMarker(Head(lines)) /\ cur # <<>>
    THEN <<cur>> \o SectionsOf(Tail(lines), <<Head(lines)>>)
    ELSE SectionsOf(Tail(lines), Append(cur, Head(lines)))

\* where the lines of out stand in inp, each as far left as the one before it
\* allows (0: nowhere)
RECURSIVE Embedding(_, _, _)
Embedding(out, inp, from) ==
    IF out = <<>> THEN <<>>
    ELSE LET c == { p \in from..Len(inp) : Trimmed(inp[p]) = Trimmed(Head(out)) }
         IN  IF c = {} THEN <<0>>
             ELSE LET p == CHOOSE q \in c : \A r \in c : q <= r
                  IN  <<p>> \o Embedding(Tail(out), inp, p + 1)

\* the first line of the section of inp that line p is in
SectionStart(inp, p) ==
    LET m == { q \in 1..p : IsMarker(inp[q]) }
    IN  IF m = {} THEN 1 ELSE CHOOSE q \in m : \A r \in m : r <= q

NoDuplicateLine(sec) == \A i, j \in 1..Len(sec) : i < j => sec[i] # sec[j]

FirstOccurrenceOrder(out, inp) ==
    LET f == Embedding(out, inp, 1)
    IN  /\ Len(f) = Len(out)
        /\ \A i \in 1..Len(f) :
              /\ f[i] # 0
              /\ \A q \in SectionStart(inp, f[i])..(f[i] - 1) : Trimmed(inp[q]) # Trimmed(out[i])

PhotosKept(out, inp) ==
    \A p \in 1..Len(inp) :
        IsPhoto(inp[p]) => \E i \in 1..Len(out) : Trimmed(out[i]) = Trimmed(inp[p])

LinesUnique(out, inp) ==
    LET secs == SectionsOf(out, <<>>)
    IN  /\ \A k \in 1..Len(secs) : NoDuplicateLine(secs[k])
        /\ FirstOccurrenceOrder(SelectSeq(out, LAMBDA l : ~IsBlankLine(l)), inp)
        /\ PhotosKept(out, inp)

\* C25: after a remover has run, no section of the result holds the same line
\* twice, the lines kept (blank lines aside) stand in the order of their first
\* occurrence in the text given, and every photo line of the text given is
\* still there, once in its section.
C25_NoDuplicateLineLeft ==
    dd_pc \in {"simplified", "enhanced"} => LinesUnique(dd_out, dd_text)

\* C26: when the text given to the section-based remover holds a year line and
\* a price line followed at once by the same year line and a price line, the
\* result holds a year line followed by a price line, and every year line and
\* price line of the text given is still in the result.
C26_YearPriceCollapsed ==
    dd_pc = "enhanced" =>
        /\ (\E i \in 1..Len(dd_text) : YearPriceRepeats(dd_text, i)) =>
              \E j \in 1..(Len(dd_out) - 1) :
                  IsYear(Trimmed(dd_out[j])) /\ IsPrice(Trimmed(dd_out[j + 1]))
        /\ \A p \in 1..Len(dd_text) :
              dd_text[p].kind \in {"year", "price"} =>
                  \E j \in 1..Len(dd_out) : Trimmed(dd_out[j]) = Trimmed(dd_text[p])

\* the positions of the fragment headers in a text
Headers(lines) == { j \in 1..Len(lines) : IsMarker(lines[j]) }

\* the last line before j that is not blank (0: none)
LastBefore(lines, j) ==
    LET c == { q \in 1..(j - 1) : ~IsBlankLine(lines[q]) }
    IN  IF c = {} THEN 0 ELSE CHOOSE q \in c : \A r \in c : r <= q

Segmented(lines) ==
    \A j \in Headers(lines) :
        IF \E q \in Headers(lines) : q < j
        THEN LastBefore(lines, j) # 0 /\ lines[LastBefore(lines, j)] = RuleLine
        ELSE j = 1

\* C27: the text written in radial mode holds the header of every fragment
\* assembled, the first header is its first line, and a '---' line stands
\* before every later header.
C27_FragmentsSeparated ==
    dd_pc = "written" =>
        /\ \A j \in Headers(dd_text) : \E q \in Headers(dd_out) : dd_out[q] = dd_text[j]
        /\ Segmented(dd_out)

\* the radial search of stage 2 ran and found no fragment
FoundNone ==
    extracted /\ results = 0 /\ renderRes \notin {"none", "extract_failed", "wait_failed"}

\* C28: when the radial search finds no fragment, and the write does not throw,
\* stage 2 writes the "no fragment found" placeholder (the remover leaves it as
\* it is), the fallback is not attempted and the run ends with exit code 0.
C28_EmptyIsNotAnError ==
    FoundNone /\ renderRes # "write_failed" =>
        /\ renderRes = "written"
        /\ removeDuplicates(finalContent(<<>>)) = <<NoFragmentLine>>
        /\ output = "render" /\ writes = 1
        /\ \A k \in 1..Len(tried) : tried[k] # "fallback"
        /\ pc = "exited" /\ exitCode = 0

C28_Witness == FoundNone /\ renderRes = "written" /\ pc = "exited"

\* a page with n cards and none of the markers
PlainPage(n) ==
    [viaPlaceholderCom |-> FALSE, placeholderCom |-> FALSE, skeleton |-> FALSE,
     placeholder |-> FALSE, matches |-> n]

\* C29: the selector asks for rendering exactly when the page names a
\* placeholder-image domain, or holds "skeleton" or "placeholder", or has fewer
\* than 2 matches of the card classes; three cards alone need no rendering and
\* one card does; and when stage 1 wrote the page it fetched, no other stage
\* was attempted, no session was created and the run ended with exit code 0.
C29_SelectorSignals ==
    /\ \A h \in HtmlSet :
          needBrowserFallback(h) <=>
              \/ h.viaPlaceholderCom \/ h.placeholderCom
              \/ h.skeleton \/ h.placeholder
              \/ h.matches < 2
    /\ ~needBrowserFallback(PlainPage(3))
    /\ needBrowserFallback(PlainPage(1))
    /\ simpleRes = "written" =>
          /\ tried = <<"simple">>
          /\ openSessions = {} /\ sessCount = 0 /\ plainOpen = 0
          /\ pc = "exited" /\ exitCode = 0 /\ output = "simple"
    /\ simpleRes = "escalated" => Len(tried) >= 2 /\ tried[2] = "render"

\* stage 1 fetched a page that needs no rendering and wrote it
C29_Witness == simpleRes = "written" /\ pc = "exited" /\ output = "simple"

NoUrl(args) ==
    \A i \in 1..Len(args) : args[i] \in Flags \/ (i > 1 /\ args[i - 1] \in Flags)

\* no --term with a value stands on the command line
NoTerm(args) ==
    ~\E i \in 1..(Len(args) - 1) : args[i] = "--term" /\ args[i + 1] # ""

\* C31: a command line without a URL or without a --term value ends main()
\* with exit code 2 before any fetch.
C31_UsageError ==
    ar_pc \in {"exit2", "fetching"} /\ (NoUrl(ar_argv) \/ NoTerm(ar_argv)) => ar_pc = "exit2"

\* the requests in flight in the render session
InFlight == pr_fetches + Cardinality({ x \in XhrIds : pr_xhr[x].inflight })

\* C32: the pending-request counter equals the number of requests in flight;
\* so it is never negative, and zero when every request has ended.
C32_CounterIsInFlight == pr_pc = "open" => pr_pending = InFlight /\ pr_pending >= 0

\* the places of the log where ev happened
IaAt(ev) == { k \in 1..Len(ia_log) : ia_log[k].ev = ev }

ClickAttempts == IaAt("click") \cup IaAt("click_threw") \cup IaAt("no_button")

\* C33: nothing is simulated before the load event, which is handled once;
\* the scroll step comes right after it, the click step only after the scroll
\* step and not before the delay has elapsed; at most one click is made; and
\* neither a missing button nor a step that throws makes the stage fail.
C33_InteractionAfterLoad ==
    /\ ia_log # <<>> => ia_log[1].ev = "load"
    /\ Cardinality(IaAt("load")) <= 1
    /\ Cardinality(IaAt("scroll") \cup IaAt("scroll_threw")) <= 1
    /\ Cardinality(ClickAttempts) <= 1
    /\ \A c \in ClickAttempts :
          /\ c = 3
          /\ ia_log[2].ev \in {"scroll", "scroll_threw"}
          /\ ia_log[c].at >= ia_log[1].at + ClickDelay
    /\ ia_pc # "failed"

\* the scroll step threw, and the click was made all the same, after the delay
C33_Witness ==
    /\ Len(ia_log) = 3
    /\ ia_log[2].ev = "scroll_threw"
    /\ ia_log[3].ev = "click"
    /\ ia_log[3].at > ia_log[1].at + ClickDelay

\* C34: whatever maxRetries is, a call of retryFetch that has ended has
\* returned a response with a status in [200, 500) or has thrown an error.
C34_ResponseOrError ==
    rf_pc \notin {"idle", "called", "fetching", "sleeping"} =>
        \/ rf_pc = "returned" /\ InAcceptedRange(rf_result)
        \/ rf_pc = "threw"

\* C35: in radial mode the links expanded over all the fragments of the page
\* are never more than maxLinks.
C35_TotalLinksCapped == lp_total <= maxLinks

\* C36: what main() appends after the markdown of a fragment is exactly the
\* Linked Content sections link expansion produced for it (nothing, when the
\* fragment has no candidate link).
C36_AppendsLinkedContentOnly == ap_pc = "appended" => ap_appended = ap_link

\* C37: one waitForQuiescence call has at most one check timer pending at any
\* time, calls resolve() and obs.disconnect() at most once each (once each
\* when resolved), and leaves no check timer pending once it has resolved.
C37_OnePollingChain ==
    /\ Len(q_timers) <= 1
    /\ q_resolves <= 1 /\ q_disconnects <= 1
    /\ q_pc = "resolved" => (q_resolves = 1 /\ q_disconnects = 1 /\ q_timers = <<>>)

\* C38: a run writes its result at most once, and a run that has ended with
\* exit code 0 has written it exactly once, whichever stage wrote it.
C38_WrittenOnce ==
    /\ writes <= 1
    /\ (pc = "exited" /\ exitCode = 0) => (writes = 1 /\ output # "none")
    /\ writes = 1 <=> output # "none"

\* stage 1 failed, the write of stage 2 threw, and the fallback wrote the result
C38_Witness ==
    /\ pc = "exited" /\ exitCode = 0 /\ writes = 1
    /\ simpleRes = "failed" /\ renderRes = "write_failed" /\ fallbackRes = "written"

\* The acquisitions of the call in progress are the selected links, in order:
\* the k-th call of renderLinkAndExtractMarkdown is for processedLinks[k].
AcquisitionsOfSelected ==
    lp_pc \notin {"idle", "called"} =>
        /\ Len(lp_started) <= Len(processedLinks)
        /\ \A k \in 1..Len(lp_started) : lp_started[k] = processedLinks[k]
        /\ Len(lp_log) <= Len(lp_started)

\* C39: one call of processLinksFromContent acquires only links selected from
\* its own input, at most one acquisition per selected link and none for a link
\* of a linked page, and it returns when every acquisition ends.
C39_DepthOneTerminates ==
    /\ []AcquisitionsOfSelected
    /\ (lp_pc = "called") ~> (lp_pc = "returned")

\* the call has returned after acquiring each of three selected links once
C39_Witness ==
    /\ lp_pc = "returned"
    /\ Len(processedLinks) = 3
    /\ lp_started = processedLinks
    /\ Len(lp_log) = 3
    /\ \E k \in 1..3 : lp_log[k].session # 0

====
